---- MODULE Spec2Model ----
(***************************************************************************)
(* Model of the dentapp backend: the VERIFACTU invoice routes              *)
(* (app/api/routes/facturas.py), the invoicing service                     *)
(* (app/services/facturacion.py) and the patient routes                    *)
(* (app/api/routes/patients.py) over a document store.                     *)
(*                                                                         *)
(* Strings that the code takes apart (invoice numbers, series) are         *)
(* sequences of one-character strings, compared byte-wise as the store     *)
(* sorts them.  Money is an integer number of thousandths of a euro        *)
(* (milesimas); a cent is 10 of them.  Python's round(x, 2) gives the     *)
(* nearest cent; on the exact middle of two cents either of them.          *)
(***************************************************************************)
EXTENDS Integers, Sequences, FiniteSets, TLC

(***************************************************************************)
(* Bounds of the model.                                                    *)
(***************************************************************************)
MaxFacturas == 2
MaxSeq == 6
SeqInicio == 9999
SeqExtra == 2
MaxPatients == 2
MaxCantidad == 2
MaxPrecio == 30
MaxTratamientos == 2
MaxCreados == 2
MaxCitas == 2
MaxVisits == 3
MaxContador == 10

(***************************************************************************)
(* Text.                                                                   *)
(***************************************************************************)

Ord(c) ==
  CASE c = "-" -> 45
    [] c = "0" -> 48 [] c = "1" -> 49 [] c = "2" -> 50 [] c = "3" -> 51
    [] c = "4" -> 52 [] c = "5" -> 53 [] c = "6" -> 54 [] c = "7" -> 55
    [] c = "8" -> 56 [] c = "9" -> 57
    [] c = "A" -> 65 [] c = "B" -> 66 [] c = "F" -> 70

Digits == <<"0", "1", "2", "3", "4", "5", "6", "7", "8", "9">>

IsDigit(c) == \E i \in 1..10 : Digits[i] = c

DigitValue(c) == (CHOOSE i \in 1..10 : Digits[i] = c) - 1

\* Byte-wise order of two strings: the order of the store's sort on "numero".
RECURSIVE StrLess(_, _)
StrLess(a, b) ==
  IF b = <<>> THEN FALSE
  ELSE IF a = <<>> THEN TRUE
  ELSE IF Ord(Head(a)) # Ord(Head(b)) THEN Ord(Head(a)) < Ord(Head(b))
  ELSE StrLess(Tail(a), Tail(b))

StartsWith(s, p) == Len(s) >= Len(p) /\ SubSeq(s, 1, Len(p)) = p

\* str(n) for n >= 0.
RECURSIVE IntToStr(_)
IntToStr(n) ==
  IF n < 10 THEN <<Digits[n + 1]>>
  ELSE IntToStr(n \div 10) \o <<Digits[(n % 10) + 1]>>

RECURSIVE Zeros(_)
Zeros(k) == IF k <= 0 THEN <<>> ELSE <<"0">> \o Zeros(k - 1)

\* f"{n:04d}": zero-padded to at least four digits.
Format04d(n) == LET s == IntToStr(n) IN Zeros(4 - Len(s)) \o s

\* int(s): the value of a non-empty string of digits; any other string of the
\* model's alphabet raises ValueError, rendered as -1.
RECURSIVE DigitsValue(_, _)
DigitsValue(s, acc) ==
  IF s = <<>> THEN acc ELSE DigitsValue(Tail(s), acc * 10 + DigitValue(Head(s)))

ParseInt(s) ==
  IF s # <<>> /\ \A i \in 1..Len(s) : IsDigit(s[i]) THEN DigitsValue(s, 0) ELSE -1

\* s.split("-")
RECURSIVE SplitDash(_, _)
SplitDash(s, cur) ==
  IF s = <<>> THEN <<cur>>
  ELSE IF Head(s) = "-" THEN <<cur>> \o SplitDash(Tail(s), <<>>)
  ELSE SplitDash(Tail(s), Append(cur, Head(s)))

(***************************************************************************)
(* FacturacionService: numbering.                                          *)
(***************************************************************************)
generar_numero_factura(serie, anio, ultimo_numero) ==
  LET nuevo_numero == ultimo_numero + 1
  IN <<"F">> \o IntToStr(anio) \o <<"-">> \o serie \o Format04d(nuevo_numero)

\* crear_factura's parse of the last number: split("-")[1], drop the first
\* character, int(); any exception gives 0.
extraer_ultimo_numero(numero) ==
  LET partes == SplitDash(numero, <<>>)
  IN IF Len(partes) < 2 THEN 0
     ELSE LET num_parte == partes[2]
              resto == IF num_parte = <<>> THEN <<>> ELSE Tail(num_parte)
              n == ParseInt(resto)
          IN IF n < 0 THEN 0 ELSE n

(***************************************************************************)
(* Money.  Amounts are integers in milesimas (1/1000 euro).                *)
(***************************************************************************)
\* round(num/den) to the nearest integer, ties to the even one (Python round).
RoundHalfEven(num, den) ==
  LET q == num \div den
      r == num % den
  IN IF 2 * r < den THEN q
     ELSE IF 2 * r > den THEN q + 1
     ELSE IF q % 2 = 0 THEN q ELSE q + 1

\* round(x, 2) of a float x whose exact value is num/den milesimas; the
\* result in milesimas.  Off the middle of two cents the nearest cent; on the
\* middle the binary value of the float lies on one side or the other (or on
\* the middle itself), so the result is the cent below (medio = 0) or the
\* cent above (medio = 1).
Round2(num, den, medio) ==
  LET q == num \div (den * 10)
      r == num % (den * 10)
  IN IF 2 * r < den * 10 THEN q * 10
     ELSE IF 2 * r > den * 10 THEN (q + 1) * 10
     ELSE (q + medio) * 10

\* The sides the three amounts of a line can fall to.
Medios == {0, 1} \X {0, 1} \X {0, 1}

\* One triple of sides for each treatment of a list.
MediosDe(tratamientos) == [1..Len(tratamientos) -> Medios]

\* d.get(k, default)
Get(d, k, default) == IF k \in DOMAIN d THEN d[k] ELSE default

TiposIva == {"21", "10", "4", "0", "exento"}

\* iva_porcentaje.get(tipo_iva, 0.21), in percent.
iva_porcentaje_siempre_21(tipo_iva) == 21

iva_porcentaje(tipo_iva) ==
  CASE tipo_iva = "21" -> 21
    [] tipo_iva = "10" -> 10
    [] tipo_iva = "4" -> 4
    [] tipo_iva = "0" -> 0
    [] tipo_iva = "exento" -> 0
    [] OTHER -> 21

ValidationError == [error |-> "ValidationError"]

IsError(x) == DOMAIN x = {"error"}

\* The field constraints of the LineaFactura model.
LineaFacturaValida(l) ==
  /\ l.cantidad >= 0
  /\ l.precio_unitario >= 0
  /\ l.descuento >= 0 /\ l.descuento <= 100
  /\ l.tipo_iva \in TiposIva
  /\ l.base_imponible >= 0
  /\ l.cuota_iva >= 0
  /\ l.total_linea >= 0

\* cantidad in units, precio_unitario in milesimas, descuento in percent.
\* base is held exactly in 1/100 of a milesima, cuota and total in 1/10000.
calcular_linea_factura(concepto, cantidad, precio_unitario, tipo_iva, descuento, medio) ==
  LET subtotal_linea == cantidad * precio_unitario
      importe_descuento == IF descuento > 0 THEN subtotal_linea * descuento ELSE 0
      base_imponible == subtotal_linea * 100 - importe_descuento
      cuota_iva == base_imponible * iva_porcentaje(tipo_iva)
      total_linea == base_imponible * 100 + cuota_iva
      linea == [concepto |-> concepto,
                cantidad |-> cantidad,
                precio_unitario |-> precio_unitario,
                descuento |-> descuento,
                tipo_iva |-> tipo_iva,
                base_imponible |-> Round2(base_imponible, 100, medio[1]),
                cuota_iva |-> Round2(cuota_iva, 10000, medio[2]),
                total_linea |-> Round2(total_linea, 10000, medio[3])]
  IN IF LineaFacturaValida(linea) THEN linea ELSE ValidationError

RECURSIVE SumaCampo(_, _)
SumaCampo(lineas, campo) ==
  IF lineas = <<>> THEN 0 ELSE Head(lineas)[campo] + SumaCampo(Tail(lineas), campo)

\* The sums are of whole cents, never on the middle of two.
calcular_totales_factura(lineas) ==
  [subtotal |-> Round2(SumaCampo(lineas, "base_imponible"), 1, 0),
   total_iva |-> Round2(SumaCampo(lineas, "cuota_iva"), 1, 0),
   total_factura |-> Round2(SumaCampo(lineas, "total_linea"), 1, 0)]

(***************************************************************************)
(* Dates.  A datetime is [anio, mes, hora]; the clock of the process runs  *)
(* through Instantes.  An optional value is <<>> (None) or <<v>>.          *)
(***************************************************************************)
Instantes ==
  << [anio |-> 2025, mes |-> 12, hora |-> 10],
     [anio |-> 2026, mes |-> 1, hora |-> 10] >>

\* str(datetime): date and time of day.
StrFecha(f) == <<f.anio, f.mes, f.hora>>

\* datetime.strftime("%Y-%m-%d"): the date alone.
StrftimeFecha(f) == <<f.anio, f.mes>>

\* f"{x:.2f}": the amount in whole cents.
Format2f(x) == RoundHalfEven(x, 10)

(***************************************************************************)
(* FacturacionService: hash and QR.                                        *)
(***************************************************************************)
\* SHA-256 of the JSON of the five fields, taken as collision-free: the
\* digest is rendered as the tuple of what is hashed.
generar_hash_verifactu(factura_data) ==
  << "sha256",
     factura_data.numero,
     StrFecha(factura_data.fecha_emision),
     factura_data.emisor.nif,
     factura_data.receptor.nombre_completo,
     factura_data.total_factura >>

generar_qr_data_verifactu(factura) ==
  [version |-> "1.0",
   tipo_documento |-> "FC",
   id_emisor |-> factura.emisor.nif,
   fecha_emision |-> StrftimeFecha(factura.fecha_emision),
   numero_factura |-> factura.numero,
   importe_total |-> Format2f(factura.total_factura),
   iva_total |-> Format2f(factura.total_iva),
   hash_verificacion |-> factura.verificacion_hash,
   url_verificacion |-> <<"https://verificacion.rubiogarciadental.com/facturas/",
                          factura.numero>>]

(***************************************************************************)
(* The Factura model.                                                      *)
(***************************************************************************)
Estados == {"borrador", "emitida", "anulada", "pagada"}

TiposFactura == {"F1", "F2", "F3", "F4", "R1", "R2", "R3", "R4", "R5"}

EMISOR_DEFAULT == [nif |-> "B12345678", razon_social |-> "Clinica Dental Rubio Garcia SL"]

\* What Factura(**doc) accepts: the constraints of FacturaBase.
FacturaValida(doc) ==
  /\ Len(doc.lineas) >= 1
  /\ \A i \in 1..Len(doc.lineas) : LineaFacturaValida(doc.lineas[i])
  /\ doc.subtotal >= 0
  /\ doc.total_iva >= 0
  /\ doc.total_factura >= 0
  /\ doc.tipo_factura \in TiposFactura
  /\ doc.estado \in Estados

\* ObjectId.is_valid: ids are numbered from 1; 0 stands for a malformed id.
ObjectIdIsValid_siempre(id) == TRUE

ObjectIdIsValid(id) == id >= 1

\* doc after {"$set": update_data}.
Set(doc, update_data) ==
  [k \in DOMAIN doc \cup DOMAIN update_data |->
     IF k \in DOMAIN update_data THEN update_data[k] ELSE doc[k]]

VARIABLES
  facturas,      \* db.facturas: the documents in insertion order; _id = index
  enCurso,       \* crear_factura requests between find_one and insert_one
  reloj,         \* index of the current instant in Instantes
  last,          \* the last response: [op, id, status]
  patients,      \* db.patients: _id -> document
  nextPatient,   \* the next _id db.patients gives out
  appointments,  \* db.appointments: _id -> document
  nextAppointment,   \* the next _id db.appointments gives out
  message_templates, \* db.message_templates: _id -> document
  nextTemplate,      \* the next _id db.message_templates gives out
  communication_config, \* db.communication_config: <<>> or its one document
  communication_campaigns, \* db.communication_campaigns: _id -> document
  background_tasks,  \* the process_campaign calls queued by send_campaign
  communication_templates, \* db.communication_templates: the documents
  patient_communication_preferences, \* the collection of that name
  db_citas,          \* db.citas: the documents
  db_pacientes,      \* db.pacientes: _id -> document
  enviados,          \* the messages handed to the email, SMS and WhatsApp services
  entrada,       \* argument of a service function applied on its own
  salida         \* its result

vars == <<facturas, enCurso, reloj, last, patients, nextPatient, appointments,
          nextAppointment, message_templates, nextTemplate, communication_config,
          communication_campaigns, background_tasks, communication_templates, patient_communication_preferences, db_citas, db_pacientes, enviados,
          entrada, salida>>

utcnow == Instantes[reloj]

Respuesta(op, id, status) == [op |-> op, id |-> id, status |-> status]

SinRespuesta == Respuesta("none", 0, 0)

\* entrada and salida while no service function is applied on its own.
SinAplicar == [op |-> "none"]


(***************************************************************************)
(* crear_factura.                                                          *)
(***************************************************************************)
\* The filter of crear_factura's find_one: the serie, and numero =~ ^F<anio>.
CoincideSerieAnio(doc, serie, anio) ==
  doc.serie = serie /\ StartsWith(doc.numero, <<"F">> \o IntToStr(anio))

\* Index of the matching document of store[lo..hi] with the greatest numero in
\* the store's string order; 0 when none matches.
RECURSIVE UltimaEn(_, _, _, _, _)
UltimaEn(store, serie, anio, lo, hi) ==
  IF lo > hi THEN 0
  ELSE IF lo = hi THEN (IF CoincideSerieAnio(store[lo], serie, anio) THEN lo ELSE 0)
  ELSE LET mid == (lo + hi) \div 2
           a == UltimaEn(store, serie, anio, lo, mid)
           b == UltimaEn(store, serie, anio, mid + 1, hi)
       IN IF a = 0 THEN b
          ELSE IF b = 0 THEN a
          ELSE IF StrLess(store[a].numero, store[b].numero) THEN b ELSE a

\* find_one({"serie": ..., "numero": {"$regex": ...}}, sort=[("numero", -1)])
ultima_factura(store, serie, anio) == UltimaEn(store, serie, anio, 1, Len(store))

\* The numero crear_factura gives the request: generated when it came empty.
asignar_numero(factura, store, ahora) ==
  IF factura.numero = <<>>
  THEN LET anio_actual == ahora.anio
           ult == ultima_factura(store, factura.serie, anio_actual)
           ultimo_numero == IF ult = 0 THEN 0
                            ELSE extraer_ultimo_numero(store[ult].numero)
       IN generar_numero_factura(factura.serie, anio_actual, ultimo_numero)
  ELSE factura.numero

\* The document crear_factura inserts: model_dump, hash, qr_data, timestamps.
construir_documento(factura, numero, ahora) ==
  LET factura_dict ==
        [numero |-> numero,
         serie |-> factura.serie,
         fecha_emision |-> factura.fecha_emision,
         emisor |-> factura.emisor,
         receptor |-> factura.receptor,
         lineas |-> factura.lineas,
         subtotal |-> factura.subtotal,
         total_iva |-> factura.total_iva,
         total_factura |-> factura.total_factura,
         tipo_factura |-> factura.tipo_factura,
         estado |-> factura.estado,
         fecha_envio_hacienda |-> <<>>,
         respuesta_hacienda |-> <<>>,
         appointment_id |-> factura.appointment_id,
         forma_pago |-> factura.forma_pago]
      con_hash == Set(factura_dict,
                      [verificacion_hash |-> generar_hash_verifactu(factura_dict)])
  IN Set(con_hash, [qr_data |-> generar_qr_data_verifactu(con_hash),
                    created_at |-> ahora,
                    updated_at |-> ahora])

\* Lines 39-73 of a request with an empty numero: it is numbered against the
\* store as find_one sees it, and waits for insert_one.
crear_factura_buscar(factura, op) ==
  /\ factura.numero = <<>>
  /\ Len(facturas) + Len(enCurso) < MaxFacturas
  /\ enCurso' = Append(enCurso,
        [doc |-> construir_documento(factura,
                                     asignar_numero(factura, facturas, utcnow), utcnow),
         op |-> op])
  /\ UNCHANGED <<facturas, reloj, last, patients, nextPatient, appointments, nextAppointment, message_templates, nextTemplate, communication_config,
                 communication_campaigns, background_tasks, communication_templates, patient_communication_preferences, db_citas, db_pacientes, enviados, entrada, salida>>

\* Lines 75-80: insert_one of a waiting request, and its response.
crear_factura_insertar(i) ==
  /\ i \in 1..Len(enCurso)
  /\ facturas' = Append(facturas, enCurso[i].doc)
  /\ enCurso' = [j \in 1..(Len(enCurso) - 1) |->
                   IF j < i THEN enCurso[j] ELSE enCurso[j + 1]]
  /\ last' = Respuesta(enCurso[i].op, Len(facturas) + 1,
                       IF enCurso[i].op = "crear_factura" THEN 201 ELSE 200)
  /\ UNCHANGED <<reloj, patients, nextPatient, appointments, nextAppointment, message_templates, nextTemplate, communication_config, communication_campaigns, background_tasks, communication_templates, patient_communication_preferences, db_citas, db_pacientes, enviados, entrada, salida>>

\* A request that brings its numero reads nothing before insert_one.
crear_factura_directa(factura) ==
  /\ factura.numero # <<>>
  /\ Len(facturas) + Len(enCurso) < MaxFacturas
  /\ facturas' = Append(facturas,
                        construir_documento(factura, factura.numero, utcnow))
  /\ last' = Respuesta("crear_factura", Len(facturas) + 1, 201)
  /\ UNCHANGED <<enCurso, reloj, patients, nextPatient, appointments, nextAppointment, message_templates, nextTemplate, communication_config,
                 communication_campaigns, background_tasks, communication_templates, patient_communication_preferences, db_citas, db_pacientes, enviados, entrada, salida>>

(***************************************************************************)
(* crear_factura_desde_tratamientos and autogenerar_factura_desde_cita.    *)
(***************************************************************************)
LineasDeTratamientos(tratamientos, medios) ==
  [i \in 1..Len(tratamientos) |->
     LET t == tratamientos[i]
     IN calcular_linea_factura(Get(t, "concepto", "Tratamiento dental"),
                               Get(t, "cantidad", 1),
                               Get(t, "precio_unitario", 0),
                               Get(t, "tipo_iva", "21"),
                               Get(t, "descuento", 0),
                               medios[i])]

\* The FacturaCreate built from the treatments, or the ValidationError that a
\* line or the empty list of lines raises.
crear_factura_desde_tratamientos(emisor, receptor, tratamientos, serie, forma_pago, appointment_id, ahora, medios) ==
  LET lineas == LineasDeTratamientos(tratamientos, medios)
  IN IF \E i \in 1..Len(lineas) : IsError(lineas[i]) THEN ValidationError
     ELSE LET totales == calcular_totales_factura(lineas)
          IN IF Len(lineas) < 1 THEN ValidationError
             ELSE [numero |-> <<>>,
                   serie |-> serie,
                   fecha_emision |-> ahora,
                   emisor |-> emisor,
                   receptor |-> receptor,
                   lineas |-> lineas,
                   subtotal |-> totales.subtotal,
                   total_iva |-> totales.total_iva,
                   total_factura |-> totales.total_factura,
                   tipo_factura |-> "F1",
                   estado |-> "borrador",
                   appointment_id |-> appointment_id,
                   forma_pago |-> forma_pago]

\* What autogenerar_factura_desde_cita answers before it builds the invoice:
\* 0 when it goes on, otherwise the error status.  A patient document holds
\* each field as <<v>>, or <<>> for null; ReceptorData takes neither a null
\* name nor a null email, and ObjectId(None) is a fresh id no patient has.
autogenerar_error(request) ==
  IF ~ObjectIdIsValid(request.appointment_id) THEN 400
  ELSE IF request.appointment_id \notin DOMAIN appointments THEN 404
  ELSE LET cita == appointments[request.appointment_id]
       IN IF cita.patient_id = <<>> THEN 404
          ELSE IF ~ObjectIdIsValid(cita.patient_id[1]) THEN 500
          ELSE IF cita.patient_id[1] \notin DOMAIN patients THEN 404
          ELSE IF patients[cita.patient_id[1]].name = <<>> THEN 500
          ELSE IF patients[cita.patient_id[1]].email = <<>> THEN 500
          ELSE 0

\* The invoices crear_factura_desde_tratamientos can build for the request.
autogenerar_facturas(request) ==
  LET paciente == patients[appointments[request.appointment_id].patient_id[1]]
      receptor == [nombre_completo |-> paciente.name[1]]
  IN { crear_factura_desde_tratamientos(
         EMISOR_DEFAULT, receptor, request.tratamientos, <<"A">>,
         request.forma_pago, <<request.appointment_id>>, utcnow, medios) :
       medios \in MediosDe(request.tratamientos) }

autogenerar_factura_desde_cita(request) ==
  IF autogenerar_error(request) # 0
  THEN /\ last' = Respuesta("autogenerar_factura_desde_cita",
                            request.appointment_id, autogenerar_error(request))
       /\ UNCHANGED <<facturas, enCurso, reloj, patients, nextPatient,
                      appointments, nextAppointment, message_templates, nextTemplate, communication_config, communication_campaigns, background_tasks, communication_templates, patient_communication_preferences, db_citas, db_pacientes, enviados, entrada, salida>>
  ELSE \E factura_data \in autogenerar_facturas(request) :
         IF IsError(factura_data)
         THEN /\ last' = Respuesta("autogenerar_factura_desde_cita",
                                   request.appointment_id, 500)
              /\ UNCHANGED <<facturas, enCurso, reloj, patients, nextPatient,
                             appointments, nextAppointment, message_templates, nextTemplate, communication_config, communication_campaigns, background_tasks, communication_templates, patient_communication_preferences, db_citas, db_pacientes, enviados, entrada, salida>>
         ELSE crear_factura_buscar(factura_data, "autogenerar_factura_desde_cita")

(***************************************************************************)
(* The handlers addressed to one invoice.                                  *)
(***************************************************************************)
Almacenada(id) == id \in 1..Len(facturas)

\* The 400 / 404 every handler answers before it looks at the document.
error_de_id(id) ==
  IF ~ObjectIdIsValid(id) THEN 400
  ELSE IF ~Almacenada(id) THEN 404
  ELSE 0

\* model_dump(exclude_unset=True) without the None values: the payload maps
\* each field sent to <<v>>, or to <<>> when it was sent as null.
update_data_de(factura_update) ==
  [k \in {f \in DOMAIN factura_update : factura_update[f] # <<>>} |->
     factura_update[k][1]]

\* The guard of lines 182-187.
no_editable_nunca(doc) == FALSE

no_editable(doc) == doc.estado \in {"emitida", "pagada"}

actualizar_factura(factura_id, factura_update) ==
  IF error_de_id(factura_id) # 0
  THEN /\ last' = Respuesta("actualizar_factura", factura_id, error_de_id(factura_id))
       /\ UNCHANGED <<facturas, enCurso, reloj, patients, nextPatient,
                      appointments, nextAppointment, message_templates, nextTemplate, communication_config, communication_campaigns, background_tasks, communication_templates, patient_communication_preferences, db_citas, db_pacientes, enviados, entrada, salida>>
  ELSE IF no_editable(facturas[factura_id])
  THEN /\ last' = Respuesta("actualizar_factura", factura_id, 400)
       /\ UNCHANGED <<facturas, enCurso, reloj, patients, nextPatient,
                      appointments, nextAppointment, message_templates, nextTemplate, communication_config, communication_campaigns, background_tasks, communication_templates, patient_communication_preferences, db_citas, db_pacientes, enviados, entrada, salida>>
  ELSE LET update_data == Set(update_data_de(factura_update),
                              [updated_at |-> utcnow])
           factura_actualizada == Set(facturas[factura_id], update_data)
       IN /\ facturas' = [facturas EXCEPT ![factura_id] = factura_actualizada]
          /\ last' = Respuesta("actualizar_factura", factura_id,
                               IF FacturaValida(factura_actualizada) THEN 200 ELSE 500)
          /\ UNCHANGED <<enCurso, reloj, patients, nextPatient, appointments, nextAppointment, message_templates, nextTemplate, communication_config,
                         communication_campaigns, background_tasks, communication_templates, patient_communication_preferences, db_citas, db_pacientes, enviados, entrada, salida>>

\* The store after anular_factura's update_one: the document is kept and
\* marked, never deleted.
anular_con_delete_one(store, factura_id, ahora) ==
  [k \in 1..(Len(store) - 1) |-> IF k < factura_id THEN store[k] ELSE store[k + 1]]

anular_en_store(store, factura_id, ahora) ==
  [store EXCEPT ![factura_id] = Set(@, [estado |-> "anulada", updated_at |-> ahora])]

anular_factura(factura_id) ==
  IF error_de_id(factura_id) # 0
  THEN /\ last' = Respuesta("anular_factura", factura_id, error_de_id(factura_id))
       /\ UNCHANGED <<facturas, enCurso, reloj, patients, nextPatient,
                      appointments, nextAppointment, message_templates, nextTemplate, communication_config, communication_campaigns, background_tasks, communication_templates, patient_communication_preferences, db_citas, db_pacientes, enviados, entrada, salida>>
  ELSE /\ facturas' = anular_en_store(facturas, factura_id, utcnow)
       /\ last' = Respuesta("anular_factura", factura_id, 200)
       /\ UNCHANGED <<enCurso, reloj, patients, nextPatient, appointments, nextAppointment, message_templates, nextTemplate, communication_config,
                      communication_campaigns, background_tasks, communication_templates, patient_communication_preferences, db_citas, db_pacientes, enviados, entrada, salida>>

\* The status and the body of obtener_factura.
obtener_factura_respuesta(factura_id) ==
  IF error_de_id(factura_id) # 0 THEN [status |-> error_de_id(factura_id)]
  ELSE IF ~FacturaValida(facturas[factura_id]) THEN [status |-> 500]
  ELSE [status |-> 200, body |-> facturas[factura_id]]

obtener_factura(factura_id) ==
  /\ last' = Respuesta("obtener_factura", factura_id,
                       obtener_factura_respuesta(factura_id).status)
  /\ UNCHANGED <<facturas, enCurso, reloj, patients, nextPatient, appointments, nextAppointment, message_templates, nextTemplate, communication_config,
                 communication_campaigns, background_tasks, communication_templates, patient_communication_preferences, db_citas, db_pacientes, enviados, entrada, salida>>

\* The status and the body of obtener_qr_factura.
obtener_qr_factura_respuesta(factura_id) ==
  IF error_de_id(factura_id) # 0 THEN [status |-> error_de_id(factura_id)]
  ELSE [status |-> 200,
        body |-> [factura_id |-> factura_id,
                  numero |-> facturas[factura_id].numero,
                  qr_data |-> facturas[factura_id].qr_data,
                  verificacion_hash |-> facturas[factura_id].verificacion_hash]]

obtener_qr_factura(factura_id) ==
  /\ last' = Respuesta("obtener_qr_factura", factura_id,
                       obtener_qr_factura_respuesta(factura_id).status)
  /\ UNCHANGED <<facturas, enCurso, reloj, patients, nextPatient, appointments, nextAppointment, message_templates, nextTemplate, communication_config,
                 communication_campaigns, background_tasks, communication_templates, patient_communication_preferences, db_citas, db_pacientes, enviados, entrada, salida>>

enviar_factura_hacienda(factura_id) ==
  IF error_de_id(factura_id) # 0
  THEN /\ last' = Respuesta("enviar_factura_hacienda", factura_id,
                            error_de_id(factura_id))
       /\ UNCHANGED <<facturas, enCurso, reloj, patients, nextPatient,
                      appointments, nextAppointment, message_templates, nextTemplate, communication_config, communication_campaigns, background_tasks, communication_templates, patient_communication_preferences, db_citas, db_pacientes, enviados, entrada, salida>>
  ELSE /\ facturas' = [facturas EXCEPT ![factura_id] =
                         Set(@, [estado |-> "emitida",
                                 fecha_envio_hacienda |-> <<utcnow>>,
                                 respuesta_hacienda |-> <<"Aceptada (simulado)">>,
                                 updated_at |-> utcnow])]
       /\ last' = Respuesta("enviar_factura_hacienda", factura_id, 200)
       /\ UNCHANGED <<enCurso, reloj, patients, nextPatient, appointments, nextAppointment, message_templates, nextTemplate, communication_config,
                      communication_campaigns, background_tasks, communication_templates, patient_communication_preferences, db_citas, db_pacientes, enviados, entrada, salida>>

procesar_pago_factura(factura_id, metodo_pago) ==
  IF error_de_id(factura_id) # 0
  THEN /\ last' = Respuesta("procesar_pago_factura", factura_id,
                            error_de_id(factura_id))
       /\ UNCHANGED <<facturas, enCurso, reloj, patients, nextPatient,
                      appointments, nextAppointment, message_templates, nextTemplate, communication_config, communication_campaigns, background_tasks, communication_templates, patient_communication_preferences, db_citas, db_pacientes, enviados, entrada, salida>>
  ELSE /\ facturas' = [facturas EXCEPT ![factura_id] =
                         Set(@, [estado |-> "pagada",
                                 forma_pago |-> metodo_pago,
                                 updated_at |-> utcnow])]
       /\ last' = Respuesta("procesar_pago_factura", factura_id, 200)
       /\ UNCHANGED <<enCurso, reloj, patients, nextPatient, appointments, nextAppointment, message_templates, nextTemplate, communication_config,
                      communication_campaigns, background_tasks, communication_templates, patient_communication_preferences, db_citas, db_pacientes, enviados, entrada, salida>>

\* Time passes between two steps.
Tictac ==
  /\ reloj < Len(Instantes)
  /\ reloj' = reloj + 1
  /\ UNCHANGED <<facturas, enCurso, last, patients, nextPatient, appointments, nextAppointment, message_templates, nextTemplate, communication_config,
                 communication_campaigns, background_tasks, communication_templates, patient_communication_preferences, db_citas, db_pacientes, enviados, entrada, salida>>

(***************************************************************************)
(* The requests of the model.                                              *)
(***************************************************************************)
LineaLimpieza ==
  [concepto |-> "Limpieza dental profesional", cantidad |-> 1,
   precio_unitario |-> 60000, descuento |-> 0, tipo_iva |-> "21",
   base_imponible |-> 60000, cuota_iva |-> 12600, total_linea |-> 72600]

NumeroA0001 == <<"F", "2", "0", "2", "5", "-", "A", "0", "0", "0", "1">>

FacturaCreate(numero, serie, total_factura) ==
  [numero |-> numero,
   serie |-> serie,
   fecha_emision |-> Instantes[1],
   emisor |-> EMISOR_DEFAULT,
   receptor |-> [nombre_completo |-> "Maria Garcia Lopez"],
   lineas |-> <<LineaLimpieza>>,
   subtotal |-> 60000,
   total_iva |-> 12600,
   total_factura |-> total_factura,
   tipo_factura |-> "F1",
   estado |-> "borrador",
   appointment_id |-> <<>>,
   forma_pago |-> "transferencia"]

\* FacturaCreate payloads of the invoice routes: the numero left empty or
\* given, the totals those of the lines or not.
FacturasCreate ==
  { FacturaCreate(<<>>, <<"A">>, 72600),
    FacturaCreate(NumeroA0001, <<"A">>, 70000) }

\* FacturaUpdate payloads: a new total (subtotal sent as null), and an estado
\* outside the Factura model's.
FacturasUpdate ==
  { [total_factura |-> <<99004>>, subtotal |-> <<>>],
    [estado |-> <<"cerrada">>] }

\* The ids of the requests: 0 is malformed, Len(facturas) + 1 is well-formed
\* and not stored.
IdsFactura == 0..(Len(facturas) + 1)

TratamientosEmpaste == <<[concepto |-> "Empaste", precio_unitario |-> 45000]>>

TratamientosIvaInvalido ==
  <<[concepto |-> "Ortodoncia", precio_unitario |-> 100000, tipo_iva |-> "7"]>>

\* Requests for every appointment id with valid treatments, and for
\* appointment 1 with treatments that make no invoice.
AutogeneradaRequests ==
  { [appointment_id |-> a, tratamientos |-> TratamientosEmpaste,
     forma_pago |-> "transferencia"] : a \in 0..4 }
  \cup
  { [appointment_id |-> 1, tratamientos |-> t, forma_pago |-> "transferencia"] :
    t \in {TratamientosIvaInvalido, <<>>} }

\* The database the invoice routes start from: patients and appointments
\* registered earlier through their own routes.  Patient 2 has no email;
\* the patient of appointment 2 has been deleted since.
PacientesRegistrados ==
  (1 :> [name |-> <<"Maria Garcia Lopez">>, phone |-> <<"664123456">>,
         email |-> <<"maria@example.com">>, notes |-> <<>>,
         whatsapp_registered |-> <<FALSE>>,
         created_at |-> Instantes[1], updated_at |-> Instantes[1]])
  @@ (2 :> [name |-> <<"Juan Perez">>, phone |-> <<"664000000">>,
            email |-> <<>>, notes |-> <<>>,
            whatsapp_registered |-> <<FALSE>>,
            created_at |-> Instantes[1], updated_at |-> Instantes[1]])

\* An AppointmentCreate payload as model_dump gives it: each field as <<v>>,
\* or <<>> for null.
AppointmentCreate(patient_id) ==
  [patient_id |-> <<patient_id>>, title |-> <<"Limpieza dental">>,
   date |-> <<Instantes[1]>>, hora |-> <<"10:00">>, duration_minutes |-> <<30>>,
   status |-> <<"scheduled">>, doctor |-> <<"mario">>,
   treatment_type |-> <<>>, reminder_enabled |-> <<TRUE>>]

\* appointment.model_dump() and created_at.
appointment_dict(appointment, ahora) == Set(appointment, [created_at |-> ahora])

CitasRegistradas ==
  (1 :> appointment_dict(AppointmentCreate(1), Instantes[1]))
  @@ (2 :> appointment_dict(AppointmentCreate(3), Instantes[1]))
  @@ (3 :> appointment_dict(AppointmentCreate(2), Instantes[1]))

Init ==
  /\ facturas = <<>>
  /\ enCurso = <<>>
  /\ reloj = 1
  /\ last = SinRespuesta
  /\ patients = PacientesRegistrados
  /\ nextPatient = 4
  /\ appointments = CitasRegistradas
  /\ nextAppointment = 4
  /\ message_templates = <<>>
  /\ nextTemplate = 1
  /\ communication_config = <<>>
  /\ communication_campaigns = <<>>
  /\ background_tasks = <<>>
  /\ communication_templates = <<>>
  /\ patient_communication_preferences = <<>>
  /\ db_citas = <<>>
  /\ db_pacientes = <<>>
  /\ enviados = <<>>
  /\ entrada = SinAplicar
  /\ salida = SinAplicar

\* The invoice routes, all requests arriving within one instant of the clock.
Next ==
  \/ \E f \in FacturasCreate : crear_factura_buscar(f, "crear_factura")
  \/ \E f \in FacturasCreate : crear_factura_directa(f)
  \/ \E i \in 1..MaxFacturas : crear_factura_insertar(i)
  \/ \E r \in AutogeneradaRequests : autogenerar_factura_desde_cita(r)
  \/ \E id \in IdsFactura, u \in FacturasUpdate : actualizar_factura(id, u)
  \/ \E id \in IdsFactura : anular_factura(id)
  \/ \E id \in IdsFactura : obtener_factura(id)
  \/ \E id \in IdsFactura : obtener_qr_factura(id)
  \/ \E id \in IdsFactura : enviar_factura_hacienda(id)
  \/ \E id \in IdsFactura : procesar_pago_factura(id, "transferencia")

Spec == Init /\ [][Next]_vars

(***************************************************************************)
(* Claims about the stored invoices, under Spec.                           *)
(***************************************************************************)
\* C3: after any sequence of crear_factura, actualizar_factura,
\* anular_factura, enviar_factura_hacienda and procesar_pago_factura calls,
\* every stored invoice's verificacion_hash is generar_hash_verifactu of its
\* current numero, fecha_emision, emisor.nif, receptor.nombre_completo and
\* total_factura.
C3_HashVigente ==
  \A id \in 1..Len(facturas) :
    facturas[id].verificacion_hash = generar_hash_verifactu(facturas[id])

\* What a qr_data embeds of an invoice.
QrDe(qr, doc) ==
  /\ qr.numero_factura = doc.numero
  /\ qr.fecha_emision = StrftimeFecha(doc.fecha_emision)
  /\ qr.importe_total = Format2f(doc.total_factura)
  /\ qr.iva_total = Format2f(doc.total_iva)
  /\ qr.hash_verificacion = doc.verificacion_hash

\* C4: after any sequence of invoice operations, the qr_data stored with an
\* invoice, which obtener_qr_factura returns, embeds the invoice's current
\* numero, fecha_emision, total_factura, total_iva and verificacion_hash.
C4_QrVigente ==
  \A id \in 1..Len(facturas) :
    /\ QrDe(facturas[id].qr_data, facturas[id])
    /\ obtener_qr_factura_respuesta(id).status = 200
    /\ obtener_qr_factura_respuesta(id).body.qr_data = facturas[id].qr_data

\* C6: after any sequence of crear_factura and actualizar_factura calls,
\* every stored invoice has total_factura = subtotal + total_iva, and its
\* subtotal, total_iva and total_factura are the sums of base_imponible,
\* cuota_iva and total_linea over its lineas.
C6_TotalesSuman ==
  \A id \in 1..Len(facturas) :
    /\ facturas[id].total_factura = facturas[id].subtotal + facturas[id].total_iva
    /\ facturas[id].subtotal = SumaCampo(facturas[id].lineas, "base_imponible")
    /\ facturas[id].total_iva = SumaCampo(facturas[id].lineas, "cuota_iva")
    /\ facturas[id].total_factura = SumaCampo(facturas[id].lineas, "total_linea")

\* C8: actualizar_factura on a stored invoice whose estado is emitida or
\* pagada answers 400 and leaves the store as it was.
C8_EmitidaNoSeEdita ==
  [][ (/\ last' # last
       /\ last'.op = "actualizar_factura"
       /\ Almacenada(last'.id)
       /\ facturas[last'.id].estado \in {"emitida", "pagada"})
      => (last'.status = 400 /\ facturas' = facturas) ]_vars

\* C8's case: an actualizar_factura was answered 400 for a stored invoice
\* that is emitida or pagada.
C8_Witness ==
  /\ last.op = "actualizar_factura"
  /\ last.status = 400
  /\ Almacenada(last.id)
  /\ facturas[last.id].estado \in {"emitida", "pagada"}

\* C9: no step removes an invoice, and an anular_factura answered 200 sets
\* the estado of its invoice to anulada and changes nothing else in the
\* store but that invoice's updated_at.
C9_AnularConserva ==
  [][ /\ Len(facturas') >= Len(facturas)
      /\ (/\ last' # last
          /\ last'.op = "anular_factura"
          /\ last'.status = 200)
         => /\ Almacenada(last'.id)
            /\ facturas'[last'.id].estado = "anulada"
            /\ facturas' = [facturas EXCEPT ![last'.id] =
                              [@ EXCEPT !.estado = "anulada",
                                        !.updated_at = facturas'[last'.id].updated_at]]
            /\ enCurso' = enCurso ]_vars

\* C9's case: an invoice that was emitida has been annulled while another
\* invoice is stored.
C9_Witness ==
  /\ last.op = "anular_factura"
  /\ last.status = 200
  /\ Len(facturas) >= 2
  /\ facturas[last.id].estado = "anulada"
  /\ facturas[last.id].fecha_envio_hacienda # <<>>

(***************************************************************************)
(* Numbering: requests that leave numero empty.                            *)
(***************************************************************************)
FacturasCreateSinNumero ==
  { FacturaCreate(<<>>, serie, 72600) : serie \in {<<"A">>, <<"B">>} }

AutogeneradaRequestsValidas ==
  { [appointment_id |-> 1, tratamientos |-> TratamientosEmpaste,
     forma_pago |-> "transferencia"] }

\* Any interleaving of the find_one and the insert_one of requests without
\* numero, direct or through autogenerar_factura_desde_cita, while the clock
\* runs into the next year.
NextCrear ==
  \/ \E f \in FacturasCreateSinNumero : crear_factura_buscar(f, "crear_factura")
  \/ \E i \in 1..MaxFacturas : crear_factura_insertar(i)
  \/ \E r \in AutogeneradaRequestsValidas : autogenerar_factura_desde_cita(r)
  \/ Tictac

SpecCrear == Init /\ [][NextCrear]_vars

\* The year a numero belongs to is the one its prefix F<anio> names.
MismoAnio(n1, n2) ==
  \E i \in 1..Len(Instantes) :
    LET prefijo == <<"F">> \o IntToStr(Instantes[i].anio)
    IN StartsWith(n1, prefijo) /\ StartsWith(n2, prefijo)

\* C1: under every interleaving of crear_factura requests that leave numero
\* empty, no two stored invoices of the same serie and year have the same
\* numero.
C1_NumeroUnico ==
  \A i, j \in 1..Len(facturas) :
    (i # j /\ facturas[i].serie = facturas[j].serie
           /\ MismoAnio(facturas[i].numero, facturas[j].numero))
      => facturas[i].numero # facturas[j].numero

(***************************************************************************)
(* Numbering: requests served one after another for serie A in one year.   *)
(***************************************************************************)
\* One whole crear_factura request with no other request in between.
crear_factura_seguida(factura) ==
  /\ enCurso = <<>>
  /\ \/ Len(facturas) < MaxSeq
     \/ Len(facturas) >= SeqInicio /\ Len(facturas) < SeqInicio + SeqExtra
  /\ facturas' = Append(facturas,
        construir_documento(factura,
                            asignar_numero(factura, facturas, utcnow), utcnow))
  /\ last' = Respuesta("crear_factura", Len(facturas) + 1, 201)
  /\ UNCHANGED <<enCurso, reloj, patients, nextPatient, appointments, nextAppointment, message_templates, nextTemplate, communication_config,
                 communication_campaigns, background_tasks, communication_templates, patient_communication_preferences, db_citas, db_pacientes, enviados, entrada, salida>>

FacturasCreateSerieA ==
  { FacturaCreate(<<>>, <<"A">>, total) : total \in {72600, 70000} }

\* The store after n requests without numero for serie A served one after
\* another: the k-th was numbered from the k - 1 before it (k <= 10000).
FacturasTrasSecuencia(n) ==
  [k \in 1..n |->
     construir_documento(FacturaCreate(<<>>, <<"A">>, 72600),
                         generar_numero_factura(<<"A">>, Instantes[1].anio, k - 1),
                         Instantes[1])]

InitSeq ==
  /\ facturas \in {<<>>, FacturasTrasSecuencia(SeqInicio)}
  /\ enCurso = <<>>
  /\ reloj = 1
  /\ last = SinRespuesta
  /\ patients = PacientesRegistrados
  /\ nextPatient = 4
  /\ appointments = CitasRegistradas
  /\ nextAppointment = 4
  /\ message_templates = <<>>
  /\ nextTemplate = 1
  /\ communication_config = <<>>
  /\ communication_campaigns = <<>>
  /\ background_tasks = <<>>
  /\ communication_templates = <<>>
  /\ patient_communication_preferences = <<>>
  /\ db_citas = <<>>
  /\ db_pacientes = <<>>
  /\ enviados = <<>>
  /\ entrada = SinAplicar
  /\ salida = SinAplicar

NextSeq == \E f \in FacturasCreateSerieA : crear_factura_seguida(f)

SpecSeq == InitSeq /\ [][NextSeq]_vars

\* C2: when requests without numero are served one after another for one
\* serie and year, the k-th invoice is numbered F<anio>-<serie><k padded to
\* four digits>, for every k.
C2_NumeracionCorrelativa ==
  \A k \in 1..Len(facturas) :
    facturas[k].numero =
      <<"F">> \o IntToStr(Instantes[1].anio) \o <<"-", "A">> \o Format04d(k)

(***************************************************************************)
(* The service functions applied on their own.                             *)
(***************************************************************************)
aplicar_calcular_linea_factura ==
  /\ entrada.op = "calcular_linea_factura"
  /\ salida.op = "none"
  /\ \E r \in { calcular_linea_factura(entrada.concepto, entrada.cantidad,
                                        entrada.precio_unitario, entrada.tipo_iva,
                                        entrada.descuento, medio) :
                 medio \in Medios } :
       salida' = [op |-> entrada.op, r |-> r]
  /\ UNCHANGED <<facturas, enCurso, reloj, last, patients, nextPatient,
                 appointments, nextAppointment, message_templates, nextTemplate, communication_config, communication_campaigns, background_tasks, communication_templates, patient_communication_preferences, db_citas, db_pacientes, enviados, entrada>>

aplicar_crear_factura_desde_tratamientos ==
  /\ entrada.op = "crear_factura_desde_tratamientos"
  /\ salida.op = "none"
  /\ \E r \in { crear_factura_desde_tratamientos(
                   EMISOR_DEFAULT, [nombre_completo |-> "Maria Garcia Lopez"],
                   entrada.tratamientos, <<"A">>, "transferencia", <<1>>,
                   utcnow, medios) : medios \in MediosDe(entrada.tratamientos) } :
       salida' = [op |-> entrada.op, r |-> r]
  /\ UNCHANGED <<facturas, enCurso, reloj, last, patients, nextPatient,
                 appointments, nextAppointment, message_templates, nextTemplate, communication_config, communication_campaigns, background_tasks, communication_templates, patient_communication_preferences, db_citas, db_pacientes, enviados, entrada>>

\* Prices in milesimas: every small one, and two of everyday size.
Precios == (0..MaxPrecio) \cup {1020, 60000}

Descuentos == {0, 10, 33, 50, 100}

EntradasLinea ==
  { [op |-> "calcular_linea_factura", concepto |-> "Empaste",
     cantidad |-> q, precio_unitario |-> p, tipo_iva |-> t, descuento |-> d] :
    q \in 0..MaxCantidad, p \in Precios, t \in TiposIva \cup {"7"},
    d \in Descuentos }

TratamientosPosibles ==
  { [concepto |-> "Empaste", precio_unitario |-> 45000],
    [concepto |-> "Revision", precio_unitario |-> 14, tipo_iva |-> "21"],
    [concepto |-> "Limpieza", precio_unitario |-> 1020, descuento |-> 33,
     cantidad |-> 1, tipo_iva |-> "21"],
    [concepto |-> "Fluor", precio_unitario |-> 125, cantidad |-> 2,
     tipo_iva |-> "10", descuento |-> 50],
    [concepto |-> "Ortodoncia", precio_unitario |-> 100000, tipo_iva |-> "7"] }

RECURSIVE ListasHasta(_, _)
ListasHasta(S, n) ==
  IF n = 0 THEN {<<>>}
  ELSE ListasHasta(S, n - 1)
       \cup { Append(l, x) : l \in ListasHasta(S, n - 1), x \in S }

EntradasTratamientos ==
  { [op |-> "crear_factura_desde_tratamientos", tratamientos |-> l] :
    l \in ListasHasta(TratamientosPosibles, MaxTratamientos) }

InitLinea ==
  /\ facturas = <<>>
  /\ enCurso = <<>>
  /\ reloj = 1
  /\ last = SinRespuesta
  /\ patients = PacientesRegistrados
  /\ nextPatient = 4
  /\ appointments = CitasRegistradas
  /\ nextAppointment = 4
  /\ message_templates = <<>>
  /\ nextTemplate = 1
  /\ communication_config = <<>>
  /\ communication_campaigns = <<>>
  /\ background_tasks = <<>>
  /\ communication_templates = <<>>
  /\ patient_communication_preferences = <<>>
  /\ db_citas = <<>>
  /\ db_pacientes = <<>>
  /\ enviados = <<>>
  /\ entrada \in EntradasLinea \cup EntradasTratamientos
  /\ salida = SinAplicar

NextLinea ==
  \/ aplicar_calcular_linea_factura
  \/ aplicar_crear_factura_desde_tratamientos

SpecLinea == InitLinea /\ [][NextLinea]_vars

\* C5: the invoice crear_factura_desde_tratamientos builds has subtotal,
\* total_iva and total_factura equal to the sums over its lines of
\* base_imponible, cuota_iva and total_linea, and total_factura = subtotal +
\* total_iva to the cent.
C5_TotalesDeTratamientos ==
  (salida.op = "crear_factura_desde_tratamientos" /\ ~IsError(salida.r))
  => /\ salida.r.subtotal = SumaCampo(salida.r.lineas, "base_imponible")
     /\ salida.r.total_iva = SumaCampo(salida.r.lineas, "cuota_iva")
     /\ salida.r.total_factura = SumaCampo(salida.r.lineas, "total_linea")
     /\ salida.r.total_factura = salida.r.subtotal + salida.r.total_iva

\* The rate of each tipo_iva, in percent.
TasaIva(tipo_iva) ==
  CASE tipo_iva = "21" -> 21 [] tipo_iva = "10" -> 10 [] tipo_iva = "4" -> 4
    [] tipo_iva = "0" -> 0 [] tipo_iva = "exento" -> 0

\* C7: for cantidad >= 0, precio_unitario >= 0, descuento in 0..100 and a
\* tipo_iva of the model, calcular_linea_factura returns base_imponible =
\* cantidad * precio_unitario * (1 - descuento/100), cuota_iva = base * rate
\* and total_linea = base + cuota, each rounded to cents; any other tipo_iva
\* gives an error and no line.
\* r is a whole number of cents and no cent is nearer to num/den milesimas.
CentimoMasCercano(r, num, den) ==
  /\ r % 10 = 0
  /\ 2 * (r * den - num) <= 10 * den
  /\ 2 * (num - r * den) <= 10 * den

PatientValido(doc) ==
  /\ doc.name # <<>>
  /\ doc.phone # <<>>
  /\ doc.whatsapp_registered # <<>>

\* The status and the body of get_patient on a store.
get_patient_en(store, patient_id) ==
  IF ~ObjectIdIsValid(patient_id) THEN [status |-> 400]
  ELSE IF patient_id \notin DOMAIN store THEN [status |-> 404]
  ELSE IF ~PatientValido(store[patient_id]) THEN [status |-> 500]
  ELSE [status |-> 200, body |-> store[patient_id]]

UnchangedButPatients ==
  UNCHANGED <<facturas, enCurso, reloj, appointments, nextAppointment, message_templates, nextTemplate, communication_config, communication_campaigns, background_tasks, communication_templates, patient_communication_preferences, db_citas, db_pacientes, enviados, entrada, salida>>

get_patient(patient_id) ==
  /\ last' = Respuesta("get_patient", patient_id,
                       get_patient_en(patients, patient_id).status)
  /\ UNCHANGED <<patients, nextPatient>>
  /\ UnchangedButPatients

\* patient.model_dump() and the two timestamps.
patient_dict(patient, ahora) ==
  Set(patient, [created_at |-> ahora, updated_at |-> ahora])

create_patient(patient) ==
  /\ nextPatient <= MaxPatients
  /\ patients' = (nextPatient :> patient_dict(patient, utcnow)) @@ patients
  /\ nextPatient' = nextPatient + 1
  /\ last' = Respuesta("create_patient", nextPatient, 201)
  /\ UnchangedButPatients

\* update_patient: the fields sent are written as sent, null included.
update_patient(patient_id, patient) ==
  IF ~ObjectIdIsValid(patient_id) \/ DOMAIN patient = {}
  THEN /\ last' = Respuesta("update_patient", patient_id, 400)
       /\ UNCHANGED <<patients, nextPatient>>
       /\ UnchangedButPatients
  ELSE IF patient_id \notin DOMAIN patients
  THEN /\ last' = Respuesta("update_patient", patient_id, 404)
       /\ UNCHANGED <<patients, nextPatient>>
       /\ UnchangedButPatients
  ELSE LET update_data == Set(patient, [updated_at |-> utcnow])
           updated_patient == Set(patients[patient_id], update_data)
       IN /\ patients' = [patients EXCEPT ![patient_id] = updated_patient]
          /\ last' = Respuesta("update_patient", patient_id,
                               IF PatientValido(updated_patient) THEN 200 ELSE 500)
          /\ UNCHANGED nextPatient
          /\ UnchangedButPatients

delete_patient(patient_id) ==
  IF ~ObjectIdIsValid(patient_id)
  THEN /\ last' = Respuesta("delete_patient", patient_id, 400)
       /\ UNCHANGED <<patients, nextPatient>>
       /\ UnchangedButPatients
  ELSE IF patient_id \notin DOMAIN patients
  THEN /\ last' = Respuesta("delete_patient", patient_id, 404)
       /\ UNCHANGED <<patients, nextPatient>>
       /\ UnchangedButPatients
  ELSE /\ patients' = [k \in DOMAIN patients \ {patient_id} |-> patients[k]]
       /\ last' = Respuesta("delete_patient", patient_id, 204)
       /\ UNCHANGED nextPatient
       /\ UnchangedButPatients

\* PatientCreate payloads, as model_dump gives them.
PatientsCreate ==
  { [name |-> <<"Maria Garcia Lopez">>, phone |-> <<"664123456">>,
     email |-> <<"maria@example.com">>, notes |-> <<>>,
     whatsapp_registered |-> <<FALSE>>],
    [name |-> <<"Juan Perez">>, phone |-> <<"664000000">>,
     email |-> <<>>, notes |-> <<"Paciente nuevo">>,
     whatsapp_registered |-> <<TRUE>>] }

\* PatientUpdate payloads: the fields sent; <<>> alone is the empty payload.
PatientsUpdate ==
  { <<>>,
    [phone |-> <<"600111222">>],
    [email |-> <<>>, notes |-> <<"Alergia al latex">>],
    [name |-> <<>>] }

IdsPatient == 0..nextPatient

InitPatients ==
  /\ facturas = <<>>
  /\ enCurso = <<>>
  /\ reloj = 1
  /\ last = SinRespuesta
  /\ patients = <<>>
  /\ nextPatient = 1
  /\ appointments = <<>>
  /\ nextAppointment = 1
  /\ message_templates = <<>>
  /\ nextTemplate = 1
  /\ communication_config = <<>>
  /\ communication_campaigns = <<>>
  /\ background_tasks = <<>>
  /\ communication_templates = <<>>
  /\ patient_communication_preferences = <<>>
  /\ db_citas = <<>>
  /\ db_pacientes = <<>>
  /\ enviados = <<>>
  /\ entrada = SinAplicar
  /\ salida = SinAplicar

NextPatients ==
  \/ \E p \in PatientsCreate : create_patient(p)
  \/ \E id \in IdsPatient : get_patient(id)
  \/ \E id \in IdsPatient, u \in PatientsUpdate : update_patient(id, u)
  \/ \E id \in IdsPatient : delete_patient(id)
  \/ Tictac

SpecPatients == InitPatients /\ [][NextPatients]_vars

CamposPatient == {"name", "phone", "email", "notes", "whatsapp_registered"}

\* C10: get_patient with the id create_patient returned gives the created
\* field values; after an update_patient of a stored patient, get_patient
\* gives the values sent for the fields sent and the previous values for
\* every other field but updated_at; after delete_patient, get_patient of
\* that id answers 404 and every other patient is unchanged.
C10_CrudPacientes ==
  [][ /\ \A p \in PatientsCreate :
           create_patient(p)
           => LET r == get_patient_en(patients', nextPatient)
              IN r.status = 200 /\ \A k \in CamposPatient : r.body[k] = p[k]
      /\ \A id \in DOMAIN patients : \A u \in PatientsUpdate \ {<<>>} :
           update_patient(id, u)
           => LET r == get_patient_en(patients', id)
              IN /\ r.status = 200
                 /\ \A k \in DOMAIN u : r.body[k] = u[k]
                 /\ \A k \in (DOMAIN patients[id] \ DOMAIN u) \ {"updated_at"} :
                      r.body[k] = patients[id][k]
      /\ \A id \in DOMAIN patients :
           delete_patient(id)
           => /\ get_patient_en(patients', id).status = 404
              /\ \A o \in DOMAIN patients \ {id} :
                   o \in DOMAIN patients' /\ patients'[o] = patients[o]
    ]_vars

(***************************************************************************)
(* The appointment routes.                                                 *)
(***************************************************************************)
\* What the response model Appointment accepts of a stored document.
AppointmentValido(doc) ==
  /\ doc.patient_id # <<>> /\ doc.title # <<>> /\ doc.date # <<>>
  /\ doc.hora # <<>> /\ doc.duration_minutes # <<>> /\ doc.status # <<>>
  /\ doc.doctor # <<>> /\ doc.reminder_enabled # <<>>

UnchangedButAppointments ==
  UNCHANGED <<facturas, enCurso, reloj, patients, nextPatient, message_templates, nextTemplate, communication_config, communication_campaigns, background_tasks, communication_templates, patient_communication_preferences, db_citas, db_pacientes, enviados, entrada, salida>>

get_appointment(appointment_id) ==
  /\ last' = Respuesta("get_appointment", appointment_id,
                       IF ~ObjectIdIsValid(appointment_id) THEN 400
                       ELSE IF appointment_id \notin DOMAIN appointments THEN 404
                       ELSE IF ~AppointmentValido(appointments[appointment_id])
                       THEN 500 ELSE 200)
  /\ UNCHANGED <<appointments, nextAppointment>>
  /\ UnchangedButAppointments

create_appointment(appointment) ==
  IF ~ObjectIdIsValid(appointment.patient_id[1])
  THEN /\ last' = Respuesta("create_appointment", 0, 400)
       /\ UNCHANGED <<appointments, nextAppointment>>
       /\ UnchangedButAppointments
  ELSE IF appointment.patient_id[1] \notin DOMAIN patients
  THEN /\ last' = Respuesta("create_appointment", 0, 404)
       /\ UNCHANGED <<appointments, nextAppointment>>
       /\ UnchangedButAppointments
  ELSE /\ appointments' = (nextAppointment :> appointment_dict(appointment, utcnow))
                          @@ appointments
       /\ nextAppointment' = nextAppointment + 1
       /\ last' = Respuesta("create_appointment", nextAppointment, 201)
       /\ UnchangedButAppointments

\* update_appointment: the fields sent are written as sent, null included.
update_appointment(appointment_id, appointment) ==
  IF ~ObjectIdIsValid(appointment_id) \/ DOMAIN appointment = {}
  THEN /\ last' = Respuesta("update_appointment", appointment_id, 400)
       /\ UNCHANGED <<appointments, nextAppointment>>
       /\ UnchangedButAppointments
  ELSE IF appointment_id \notin DOMAIN appointments
  THEN /\ last' = Respuesta("update_appointment", appointment_id, 404)
       /\ UNCHANGED <<appointments, nextAppointment>>
       /\ UnchangedButAppointments
  ELSE LET updated_appointment == Set(appointments[appointment_id], appointment)
       IN /\ appointments' = [appointments EXCEPT
                                ![appointment_id] = updated_appointment]
          /\ last' = Respuesta("update_appointment", appointment_id,
                               IF AppointmentValido(updated_appointment)
                               THEN 200 ELSE 500)
          /\ UNCHANGED nextAppointment
          /\ UnchangedButAppointments

delete_appointment(appointment_id) ==
  IF ~ObjectIdIsValid(appointment_id)
  THEN /\ last' = Respuesta("delete_appointment", appointment_id, 400)
       /\ UNCHANGED <<appointments, nextAppointment>>
       /\ UnchangedButAppointments
  ELSE IF appointment_id \notin DOMAIN appointments
  THEN /\ last' = Respuesta("delete_appointment", appointment_id, 404)
       /\ UNCHANGED <<appointments, nextAppointment>>
       /\ UnchangedButAppointments
  ELSE /\ appointments' = [k \in DOMAIN appointments \ {appointment_id} |->
                             appointments[k]]
       /\ last' = Respuesta("delete_appointment", appointment_id, 204)
       /\ UNCHANGED nextAppointment
       /\ UnchangedButAppointments

(***************************************************************************)
(* The message template routes.                                            *)
(***************************************************************************)
\* What the response model MessageTemplate accepts of a stored document.
MessageTemplateValido(doc) == doc.name # <<>> /\ doc.content # <<>>

UnchangedButTemplates ==
  UNCHANGED <<facturas, enCurso, reloj, patients, nextPatient, appointments, nextAppointment, communication_config, communication_campaigns, background_tasks, communication_templates, patient_communication_preferences, db_citas, db_pacientes, enviados, entrada, salida>>

get_message_template(template_id) ==
  /\ last' = Respuesta("get_message_template", template_id,
                       IF ~ObjectIdIsValid(template_id) THEN 400
                       ELSE IF template_id \notin DOMAIN message_templates THEN 404
                       ELSE IF ~MessageTemplateValido(message_templates[template_id])
                       THEN 500 ELSE 200)
  /\ UNCHANGED <<message_templates, nextTemplate>>
  /\ UnchangedButTemplates

\* template.model_dump() and created_at.
template_dict(template, ahora) == Set(template, [created_at |-> ahora])

create_message_template(template) ==
  /\ message_templates' = (nextTemplate :> template_dict(template, utcnow))
                          @@ message_templates
  /\ nextTemplate' = nextTemplate + 1
  /\ last' = Respuesta("create_message_template", nextTemplate, 201)
  /\ UnchangedButTemplates

\* update_message_template: the fields sent are written as sent.
update_message_template(template_id, template) ==
  IF ~ObjectIdIsValid(template_id) \/ DOMAIN template = {}
  THEN /\ last' = Respuesta("update_message_template", template_id, 400)
       /\ UNCHANGED <<message_templates, nextTemplate>>
       /\ UnchangedButTemplates
  ELSE IF template_id \notin DOMAIN message_templates
  THEN /\ last' = Respuesta("update_message_template", template_id, 404)
       /\ UNCHANGED <<message_templates, nextTemplate>>
       /\ UnchangedButTemplates
  ELSE LET updated_template == Set(message_templates[template_id], template)
       IN /\ message_templates' = [message_templates EXCEPT
                                     ![template_id] = updated_template]
          /\ last' = Respuesta("update_message_template", template_id,
                               IF MessageTemplateValido(updated_template)
                               THEN 200 ELSE 500)
          /\ UNCHANGED nextTemplate
          /\ UnchangedButTemplates

delete_message_template(template_id) ==
  IF ~ObjectIdIsValid(template_id)
  THEN /\ last' = Respuesta("delete_message_template", template_id, 400)
       /\ UNCHANGED <<message_templates, nextTemplate>>
       /\ UnchangedButTemplates
  ELSE IF template_id \notin DOMAIN message_templates
  THEN /\ last' = Respuesta("delete_message_template", template_id, 404)
       /\ UNCHANGED <<message_templates, nextTemplate>>
       /\ UnchangedButTemplates
  ELSE /\ message_templates' = [k \in DOMAIN message_templates \ {template_id} |->
                                  message_templates[k]]
       /\ last' = Respuesta("delete_message_template", template_id, 204)
       /\ UNCHANGED nextTemplate
       /\ UnchangedButTemplates

(***************************************************************************)
(* The four stores together: requests addressed to an id.                  *)
(***************************************************************************)
AppointmentsCreate == { AppointmentCreate(p) : p \in 0..(MaxPatients + 1) }

\* AppointmentUpdate payloads: the fields sent; <<>> alone is the empty payload.
AppointmentsUpdate ==
  { <<>>, [status |-> <<"completed">>], [title |-> <<>>] }

MessageTemplatesCreate ==
  { [name |-> <<"Recordatorio">>, content |-> <<"Su cita es manana">>,
     flow_steps |-> << <<>> >>, button_actions |-> << <<>> >>] }

\* MessageTemplateUpdate payloads.
MessageTemplatesUpdate ==
  { <<>>, [content |-> <<"Le esperamos">>], [name |-> <<>>] }

\* The documents created so far in the four stores.
Creados ==
  (nextPatient - 1) + (nextAppointment - 1) + (nextTemplate - 1) + Len(facturas)

IdsAppointment == 0..nextAppointment

IdsTemplate == 0..nextTemplate

NextCrud ==
  \/ Creados < MaxCreados /\ \E p \in PatientsCreate : create_patient(p)
  \/ \E id \in IdsPatient : get_patient(id)
  \/ \E id \in IdsPatient, u \in PatientsUpdate : update_patient(id, u)
  \/ \E id \in IdsPatient : delete_patient(id)
  \/ Creados < MaxCreados /\ \E a \in AppointmentsCreate : create_appointment(a)
  \/ \E id \in IdsAppointment : get_appointment(id)
  \/ \E id \in IdsAppointment, u \in AppointmentsUpdate : update_appointment(id, u)
  \/ \E id \in IdsAppointment : delete_appointment(id)
  \/ Creados < MaxCreados /\ \E t \in MessageTemplatesCreate : create_message_template(t)
  \/ \E id \in IdsTemplate : get_message_template(id)
  \/ \E id \in IdsTemplate, u \in MessageTemplatesUpdate : update_message_template(id, u)
  \/ \E id \in IdsTemplate : delete_message_template(id)
  \/ Creados < MaxCreados /\ \E f \in FacturasCreate : crear_factura_directa(f)
  \/ \E id \in IdsFactura : obtener_factura(id)
  \/ \E id \in IdsFactura, u \in FacturasUpdate \cup {<<>>} : actualizar_factura(id, u)
  \/ \E id \in IdsFactura : anular_factura(id)

SpecCrud == InitPatients /\ [][NextCrud]_vars

Stores == <<patients, appointments, message_templates, facturas>>

\* A request that sends no field, answered 400 before the store is read.
SinCampos(u) == DOMAIN u = {}

\* The answer to a request addressed to id when the id is malformed (400) or
\* well-formed and not stored (404), the store left as it was; vacio tells
\* the answer of an update without fields to an id that is not stored.
RespuestaSinDocumento(id, store, vacio) ==
  /\ id = 0 => last'.status = 400 /\ UNCHANGED Stores
  /\ (id >= 1 /\ id \notin DOMAIN store)
       => last'.status = (IF vacio THEN 400 ELSE 404) /\ UNCHANGED Stores

\* The step answers a request of handler op addressed to id.
Paso(op, id) == last'.op = op /\ last'.id = id

\* C11 as stated: for patients, appointments, message templates and
\* invoices, a get, update or delete (anular) of a well-formed id that is
\* not stored answers 404, of a malformed id 400, and the store is unchanged.
C11_SinDocumento ==
  [][ /\ \A id \in IdsPatient :
           /\ Paso("get_patient", id) /\ get_patient(id) => RespuestaSinDocumento(id, patients, FALSE)
           /\ Paso("delete_patient", id) /\ delete_patient(id) => RespuestaSinDocumento(id, patients, FALSE)
           /\ \A u \in PatientsUpdate :
                Paso("update_patient", id) /\ update_patient(id, u) => RespuestaSinDocumento(id, patients, FALSE)
      /\ \A id \in IdsAppointment :
           /\ Paso("get_appointment", id) /\ get_appointment(id) => RespuestaSinDocumento(id, appointments, FALSE)
           /\ Paso("delete_appointment", id) /\ delete_appointment(id) => RespuestaSinDocumento(id, appointments, FALSE)
           /\ \A u \in AppointmentsUpdate :
                Paso("update_appointment", id) /\ update_appointment(id, u)
                     => RespuestaSinDocumento(id, appointments, FALSE)
      /\ \A id \in IdsTemplate :
           /\ Paso("get_message_template", id) /\ get_message_template(id)
                => RespuestaSinDocumento(id, message_templates, FALSE)
           /\ Paso("delete_message_template", id) /\ delete_message_template(id)
                => RespuestaSinDocumento(id, message_templates, FALSE)
           /\ \A u \in MessageTemplatesUpdate :
                Paso("update_message_template", id) /\ update_message_template(id, u)
                     => RespuestaSinDocumento(id, message_templates, FALSE)
      /\ \A id \in IdsFactura :
           /\ Paso("obtener_factura", id) /\ obtener_factura(id) => RespuestaSinDocumento(id, facturas, FALSE)
           /\ Paso("anular_factura", id) /\ anular_factura(id) => RespuestaSinDocumento(id, facturas, FALSE)
           /\ \A u \in FacturasUpdate \cup {<<>>} :
                Paso("actualizar_factura", id) /\ actualizar_factura(id, u) => RespuestaSinDocumento(id, facturas, FALSE)
    ]_vars

\* C11 amended: as C11, except that an update of a patient, an appointment
\* or a message template that sends no field answers 400 also when the id is
\* well-formed and not stored.
C11_SinDocumentoSalvoVacio ==
  [][ /\ \A id \in IdsPatient :
           /\ Paso("get_patient", id) /\ get_patient(id) => RespuestaSinDocumento(id, patients, FALSE)
           /\ Paso("delete_patient", id) /\ delete_patient(id) => RespuestaSinDocumento(id, patients, FALSE)
           /\ \A u \in PatientsUpdate :
                Paso("update_patient", id) /\ update_patient(id, u)
                     => RespuestaSinDocumento(id, patients, SinCampos(u))
      /\ \A id \in IdsAppointment :
           /\ Paso("get_appointment", id) /\ get_appointment(id) => RespuestaSinDocumento(id, appointments, FALSE)
           /\ Paso("delete_appointment", id) /\ delete_appointment(id) => RespuestaSinDocumento(id, appointments, FALSE)
           /\ \A u \in AppointmentsUpdate :
                Paso("update_appointment", id) /\ update_appointment(id, u)
                     => RespuestaSinDocumento(id, appointments, SinCampos(u))
      /\ \A id \in IdsTemplate :
           /\ Paso("get_message_template", id) /\ get_message_template(id)
                => RespuestaSinDocumento(id, message_templates, FALSE)
           /\ Paso("delete_message_template", id) /\ delete_message_template(id)
                => RespuestaSinDocumento(id, message_templates, FALSE)
           /\ \A u \in MessageTemplatesUpdate :
                Paso("update_message_template", id) /\ update_message_template(id, u)
                     => RespuestaSinDocumento(id, message_templates, SinCampos(u))
      /\ \A id \in IdsFactura :
           /\ Paso("obtener_factura", id) /\ obtener_factura(id) => RespuestaSinDocumento(id, facturas, FALSE)
           /\ Paso("anular_factura", id) /\ anular_factura(id) => RespuestaSinDocumento(id, facturas, FALSE)
           /\ \A u \in FacturasUpdate \cup {<<>>} :
                Paso("actualizar_factura", id) /\ actualizar_factura(id, u) => RespuestaSinDocumento(id, facturas, FALSE)
    ]_vars

\* C11's case: an update with fields, addressed to a well-formed id that no
\* appointment has, has been answered 404 while the four stores hold documents.
C11_Witness ==
  /\ last.op = "update_appointment"
  /\ last.status = 404
  /\ last.id >= 1
  /\ DOMAIN patients # {}
  /\ DOMAIN appointments # {}
  /\ last.id \notin DOMAIN appointments

(***************************************************************************)
(* AnalyticsService.calculate_patient_ltv.  An _id given to a query is     *)
(* [tipo, n]: the ObjectId numbered n, or the string that writes it; the   *)
(* stores hold ObjectIds, and a string equals no ObjectId.                 *)
(***************************************************************************)
IdObjectId(n) == [tipo |-> "ObjectId", n |-> n]

IdStr(n) == [tipo |-> "str", n |-> n]

\* db.patients.find_one({"_id": patient_id}): <<doc>>, or <<>> for None.
find_one_patient(store, patient_id) ==
  IF patient_id.tipo = "ObjectId" /\ patient_id.n \in DOMAIN store
  THEN <<store[patient_id.n]>>
  ELSE <<>>

RECURSIVE SumaTotalFactura(_)
SumaTotalFactura(docs) ==
  IF docs = <<>> THEN 0
  ELSE Head(docs).total_factura + SumaTotalFactura(Tail(docs))

calculate_patient_ltv(patient_id, db) ==
  LET enEstado(f) == f.estado \in {"emitida", "pagada"}
      facturas_db == SelectSeq(db.facturas, enEstado)
      patient == find_one_patient(db.patients, patient_id)
  IN IF patient = <<>> THEN 0
     ELSE LET delPaciente(f) == <<f.receptor.nombre_completo>> = patient[1].name
              patient_facturas == SelectSeq(facturas_db, delPaciente)
          IN Round2(SumaTotalFactura(patient_facturas), 1, 0)

aplicar_calculate_patient_ltv ==
  /\ entrada.op = "calculate_patient_ltv"
  /\ salida.op = "none"
  /\ salida' = [op |-> entrada.op,
                r |-> calculate_patient_ltv(entrada.patient_id,
                        [patients |-> patients, facturas |-> facturas])]
  /\ UNCHANGED <<facturas, enCurso, reloj, last, patients, nextPatient, appointments, nextAppointment, message_templates, nextTemplate, communication_config, communication_campaigns, background_tasks, communication_templates, patient_communication_preferences, db_citas, db_pacientes, enviados, entrada>>

\* The invoice autogenerar_factura_desde_cita stores for the appointment cita
\* of the patient paciente, once it has reached the estado.
FacturaDeCita(cita, paciente, estado) ==
  LET factura_data == crear_factura_desde_tratamientos(
                        EMISOR_DEFAULT, [nombre_completo |-> paciente.name[1]],
                        TratamientosEmpaste, <<"A">>, "transferencia", <<cita>>,
                        Instantes[1], <<<<0, 0, 0>>>>)
  IN Set(construir_documento(factura_data, NumeroA0001, Instantes[1]),
         [estado |-> estado])

\* Two patients of different names, and two patients of one name.
PacientesHomonimos ==
  [PacientesRegistrados EXCEPT ![2].name = PacientesRegistrados[1].name]

\* The appointments of the patients stored: 1 of patient 1, 3 of patient 2.
CitasDePacientes == {1, 3}

FacturasDeCitas(pacientes) ==
  { FacturaDeCita(c, pacientes[CitasRegistradas[c].patient_id[1]], e) :
      c \in CitasDePacientes, e \in Estados }

InitLtv ==
  /\ enCurso = <<>>
  /\ reloj = 1
  /\ last = SinRespuesta
  /\ patients \in {PacientesRegistrados, PacientesHomonimos}
  /\ nextPatient = 4
  /\ appointments = CitasRegistradas
  /\ nextAppointment = 4
  /\ message_templates = <<>>
  /\ nextTemplate = 1
  /\ communication_config = <<>>
  /\ communication_campaigns = <<>>
  /\ background_tasks = <<>>
  /\ communication_templates = <<>>
  /\ patient_communication_preferences = <<>>
  /\ db_citas = <<>>
  /\ db_pacientes = <<>>
  /\ enviados = <<>>
  /\ facturas \in ListasHasta(FacturasDeCitas(patients), MaxFacturas)
  /\ entrada \in { [op |-> "calculate_patient_ltv", patient_id |-> id] :
                     id \in { IdObjectId(n) : n \in 1..3 } \cup { IdStr(n) : n \in 1..3 } }
  /\ salida = SinAplicar

NextLtv == aplicar_calculate_patient_ltv

SpecLtv == InitLtv /\ [][NextLtv]_vars

\* The invoices billed to patient n: those of the appointments of n.
FacturadasA(n) ==
  LET deN(f) == /\ f.appointment_id # <<>>
                /\ f.appointment_id[1] \in DOMAIN appointments
                /\ appointments[f.appointment_id[1]].patient_id = <<n>>
  IN SelectSeq(facturas, deN)

\* C12: calculate_patient_ltv of patient p is the sum of total_factura over
\* exactly the stored invoices billed to p whose estado is emitida or pagada,
\* and 0 when p does not exist.
C12_LtvDelPaciente ==
  (salida.op = "calculate_patient_ltv")
  => LET n == entrada.patient_id.n
         cuenta(f) == f.estado \in {"emitida", "pagada"}
     IN salida.r = IF n \in DOMAIN patients
                   THEN SumaTotalFactura(SelectSeq(FacturadasA(n), cuenta))
                   ELSE 0

(***************************************************************************)
(* AnalyticsService.calculate_conversion_funnel.  A rate is held in        *)
(* hundredths of a percent; with the counts of the model no rate falls on  *)
(* the middle of two hundredths, and the products by 1.5, 0.8, 0.9 and     *)
(* 0.95 are the exact ones.                                                *)
(***************************************************************************)
\* The order of two datetimes.
FechaKey(f) == f.anio * 10000 + f.mes * 100 + f.hora

\* {"$gte": period_start, "$lte": period_end} on an optional datetime.
EnPeriodo(fecha, period_start, period_end) ==
  /\ fecha # <<>>
  /\ FechaKey(fecha[1]) >= FechaKey(period_start)
  /\ FechaKey(fecha[1]) <= FechaKey(period_end)

\* round(a / b * 100, 2) if b > 0 else 0, in hundredths of a percent.
Tasa(a, b) == IF b > 0 THEN RoundHalfEven(a * 10000, b) ELSE 0

\* Cardinality of the indexes of a store that satisfy a test.
Cuenta(store, Test(_)) == Cardinality({ k \in DOMAIN store : Test(store[k]) })

\* The constraints of the ConversionFunnel model.
ConversionFunnelValido(r) ==
  /\ r.total_inquiries >= 0 /\ r.scheduled_appointments >= 0
  /\ r.completed_appointments >= 0 /\ r.evaluations_done >= 0
  /\ r.quotes_sent >= 0 /\ r.quotes_accepted >= 0
  /\ r.treatments_started >= 0 /\ r.treatments_completed >= 0
  /\ r.inquiry_to_appointment_rate >= 0 /\ r.inquiry_to_appointment_rate <= 10000
  /\ r.appointment_to_treatment_rate >= 0 /\ r.appointment_to_treatment_rate <= 10000
  /\ r.quote_to_treatment_rate >= 0 /\ r.quote_to_treatment_rate <= 10000
  /\ r.overall_conversion_rate >= 0 /\ r.overall_conversion_rate <= 10000

calculate_conversion_funnel(period_start, period_end, db) ==
  LET enPeriodoCita(a) == EnPeriodo(a.date, period_start, period_end)
      completada(a) == enPeriodoCita(a) /\ a.status = <<"completed">>
      enPeriodoFactura(f) ==
        /\ EnPeriodo(<<f.fecha_emision>>, period_start, period_end)
        /\ f.estado \in {"emitida", "pagada"}
      total_appointments == Cuenta(db.appointments, enPeriodoCita)
      completed == Cuenta(db.appointments, completada)
      total_facturas == Cuenta(db.facturas, enPeriodoFactura)
      total_inquiries == (total_appointments * 15) \div 10
      scheduled == total_appointments
      completed_appts == completed
      evaluations == (completed * 8) \div 10
      quotes_sent == (evaluations * 9) \div 10
      quotes_accepted == total_facturas
      treatments_started == total_facturas
      treatments_completed == (total_facturas * 95) \div 100
      funnel == [period_start |-> period_start,
                 period_end |-> period_end,
                 total_inquiries |-> total_inquiries,
                 scheduled_appointments |-> scheduled,
                 completed_appointments |-> completed_appts,
                 evaluations_done |-> evaluations,
                 quotes_sent |-> quotes_sent,
                 quotes_accepted |-> quotes_accepted,
                 treatments_started |-> treatments_started,
                 treatments_completed |-> treatments_completed,
                 inquiry_to_appointment_rate |-> Tasa(scheduled, total_inquiries),
                 appointment_to_treatment_rate |-> Tasa(treatments_started, completed_appts),
                 quote_to_treatment_rate |-> Tasa(quotes_accepted, quotes_sent),
                 overall_conversion_rate |-> Tasa(treatments_completed, total_inquiries)]
  IN IF ConversionFunnelValido(funnel) THEN funnel ELSE ValidationError

aplicar_calculate_conversion_funnel ==
  /\ entrada.op = "calculate_conversion_funnel"
  /\ salida.op = "none"
  /\ salida' = [op |-> entrada.op,
                r |-> calculate_conversion_funnel(
                        entrada.period_start, entrada.period_end,
                        [appointments |-> appointments, facturas |-> facturas])]
  /\ UNCHANGED <<facturas, enCurso, reloj, last, patients, nextPatient, appointments, nextAppointment, message_templates, nextTemplate, communication_config, communication_campaigns, background_tasks, communication_templates, patient_communication_preferences, db_citas, db_pacientes, enviados, entrada>>

\* Appointments of patient 1 in each status, at each instant.
CitasPosibles ==
  { Set(appointment_dict(AppointmentCreate(1), Instantes[1]),
        [status |-> <<st>>, date |-> <<Instantes[i]>>]) :
      st \in {"scheduled", "completed", "cancelled"}, i \in 1..Len(Instantes) }

InitFunnel ==
  /\ enCurso = <<>>
  /\ reloj = 1
  /\ last = SinRespuesta
  /\ patients = PacientesRegistrados
  /\ nextPatient = 4
  /\ appointments \in ListasHasta(CitasPosibles, MaxCitas)
  /\ nextAppointment = Len(appointments) + 1
  /\ message_templates = <<>>
  /\ nextTemplate = 1
  /\ communication_config = <<>>
  /\ communication_campaigns = <<>>
  /\ background_tasks = <<>>
  /\ communication_templates = <<>>
  /\ patient_communication_preferences = <<>>
  /\ db_citas = <<>>
  /\ db_pacientes = <<>>
  /\ enviados = <<>>
  /\ facturas \in ListasHasta(FacturasDeCitas(patients), MaxFacturas)
  /\ entrada \in { [op |-> "calculate_conversion_funnel",
                    period_start |-> Instantes[i], period_end |-> Instantes[j]] :
                     i \in 1..Len(Instantes), j \in 1..Len(Instantes) }
  /\ salida = SinAplicar

NextFunnel == aplicar_calculate_conversion_funnel

SpecFunnel == InitFunnel /\ [][NextFunnel]_vars

\* C13: calculate_conversion_funnel returns a ConversionFunnel, with four
\* rates between 0 and 100, for every set of appointments and invoices.
C13_FunnelConstruido ==
  (salida.op = "calculate_conversion_funnel")
  => /\ ~IsError(salida.r)
     /\ \A k \in {"inquiry_to_appointment_rate", "appointment_to_treatment_rate",
                  "quote_to_treatment_rate", "overall_conversion_rate"} :
          salida.r[k] >= 0 /\ salida.r[k] <= 10000

(***************************************************************************)
(* AnalyticsService._calculate_churn_risk, with the visits and the average *)
(* interval calculate_patient_analytics hands it.  The interval is a       *)
(* fraction [num, den] of days.                                            *)
(***************************************************************************)
\* Days of the year before the first of each month, leap years apart.
DiasAntesDeMes == <<0, 31, 59, 90, 120, 151, 181, 212, 243, 273, 304, 334>>

\* Hours from the first hour of 2025 to the datetime (day 1 of its month).
HorasDesde2025(f) ==
  ((f.anio - 2025) * 365 + DiasAntesDeMes[f.mes]) * 24 + f.hora

\* (b - a).days: whole days, rounded down.
DeltaDays(a, b) ==
  LET h == HorasDesde2025(b) - HorasDesde2025(a)
  IN IF h >= 0 THEN h \div 24 ELSE -((-h + 23) \div 24)

TypeError == "TypeError"

\* sorted(appointments, key=date): insertion of each one in its place.
RECURSIVE SortedPorFecha(_)
SortedPorFecha(citas) ==
  IF citas = <<>> THEN <<>>
  ELSE LET x == Head(citas)
           resto == SortedPorFecha(Tail(citas))
           antes(a) == HorasDesde2025(a.date[1]) < HorasDesde2025(x.date[1])
           despues(a) == ~antes(a)
       IN SelectSeq(resto, antes) \o <<x>> \o SelectSeq(resto, despues)

RECURSIVE SumaDaysBetween(_)
SumaDaysBetween(sorted_appointments) ==
  IF Len(sorted_appointments) < 2 THEN 0
  ELSE DeltaDays(sorted_appointments[1].date[1], sorted_appointments[2].date[1])
       + SumaDaysBetween(Tail(sorted_appointments))

\* avg_days of calculate_patient_analytics: the mean of the days between
\* consecutive visits, 0 with fewer than two visits.
avg_days_de(lista_citas) ==
  IF Len(lista_citas) >= 2
  THEN [num |-> SumaDaysBetween(SortedPorFecha(lista_citas)),
        den |-> Len(lista_citas) - 1]
  ELSE [num |-> 0, den |-> 1]

\* max(lista_citas, key=date): the first of the latest ones.
RECURSIVE MaxPorFecha(_)
MaxPorFecha(citas) ==
  IF Len(citas) = 1 THEN citas[1]
  ELSE LET m == MaxPorFecha(Tail(citas))
       IN IF HorasDesde2025(m.date[1]) > HorasDesde2025(Head(citas).date[1])
          THEN m ELSE Head(citas)

\* A date that is null is compared with, or subtracted from, a datetime:
\* TypeError.
calculate_churn_risk_(visits, avg_days, lista_citas, ahora) ==
  IF lista_citas = <<>> THEN "alto"
  ELSE IF \E i \in 1..Len(lista_citas) : lista_citas[i].date = <<>>
  THEN TypeError
  ELSE LET last_appointment == MaxPorFecha(lista_citas)
           days_since_last == DeltaDays(last_appointment.date[1], ahora)
       IN IF avg_days.num > 0 /\ days_since_last * avg_days.den > 2 * avg_days.num
          THEN "alto"
          ELSE IF avg_days.num > 0
                  /\ 2 * days_since_last * avg_days.den > 3 * avg_days.num
          THEN "medio"
          ELSE IF visits < 3 THEN "medio"
          ELSE "bajo"

aplicar_calculate_churn_risk ==
  /\ entrada.op = "_calculate_churn_risk"
  /\ salida.op = "none"
  /\ salida' = [op |-> entrada.op,
                r |-> calculate_churn_risk_(entrada.visits, entrada.avg_days,
                                            entrada.appointments, utcnow)]
  /\ UNCHANGED <<facturas, enCurso, reloj, last, patients, nextPatient, appointments, nextAppointment, message_templates, nextTemplate, communication_config, communication_campaigns, background_tasks, communication_templates, patient_communication_preferences, db_citas, db_pacientes, enviados, entrada>>

\* Appointments of patient 1 on the first of some months of 2025, and one
\* whose date an update has set to null.
CitasConFecha ==
  { Set(appointment_dict(AppointmentCreate(1), Instantes[1]), [date |-> f]) :
      f \in { <<[anio |-> 2025, mes |-> m, hora |-> 10]>> : m \in {1, 6, 9, 11, 12} }
            \cup {<<>>} }

SinFechaNula(citas) == \A i \in 1..Len(citas) : citas[i].date # <<>>

\* The arguments calculate_patient_analytics makes from a patient's visits.
EntradasChurn ==
  { [op |-> "_calculate_churn_risk",
     visits |-> Len(citas),
     avg_days |-> IF SinFechaNula(citas) THEN avg_days_de(citas)
                  ELSE [num |-> 0, den |-> 1],
     appointments |-> citas] :
    citas \in { l \in ListasHasta(CitasConFecha, MaxVisits) :
                  SinFechaNula(l) \/ Len(l) = 1 } }

InitChurn ==
  /\ facturas = <<>>
  /\ enCurso = <<>>
  /\ reloj \in 1..Len(Instantes)
  /\ last = SinRespuesta
  /\ patients = PacientesRegistrados
  /\ nextPatient = 4
  /\ appointments = CitasRegistradas
  /\ nextAppointment = 4
  /\ message_templates = <<>>
  /\ nextTemplate = 1
  /\ communication_config = <<>>
  /\ communication_campaigns = <<>>
  /\ background_tasks = <<>>
  /\ communication_templates = <<>>
  /\ patient_communication_preferences = <<>>
  /\ db_citas = <<>>
  /\ db_pacientes = <<>>
  /\ enviados = <<>>
  /\ entrada \in EntradasChurn
  /\ salida = SinAplicar

NextChurn == aplicar_calculate_churn_risk

SpecChurn == InitChurn /\ [][NextChurn]_vars

\* Days from the last visit to now, over dated visits.
DiasDesdeUltima(citas, ahora) == DeltaDays(MaxPorFecha(citas).date[1], ahora)

\* C14: _calculate_churn_risk returns exactly one of bajo, medio, alto: alto
\* with no appointments or when the days since the last visit exceed 2 times
\* the average interval; medio when they exceed 1.5 times it or the visits
\* are fewer than 3; bajo otherwise.
C14_RiesgoDeAbandono ==
  (salida.op = "_calculate_churn_risk")
  => LET citas == entrada.appointments
         avg == entrada.avg_days
     IN /\ salida.r \in {"bajo", "medio", "alto"}
        /\ salida.r =
             IF citas = <<>> THEN "alto"
             ELSE LET dias == DiasDesdeUltima(citas, utcnow)
                  IN IF dias * avg.den > 2 * avg.num THEN "alto"
                     ELSE IF 2 * dias * avg.den > 3 * avg.num
                             \/ entrada.visits < 3 THEN "medio"
                     ELSE "bajo"

(***************************************************************************)
(* The SMTP and SMS configuration routes of communication.py.              *)
(***************************************************************************)
UnchangedButConfig ==
  UNCHANGED <<facturas, enCurso, reloj, patients, nextPatient, appointments, nextAppointment, message_templates, nextTemplate, communication_campaigns, background_tasks, communication_templates, patient_communication_preferences, db_citas, db_pacientes, enviados, entrada>>

\* The name `db` that communication.py and automation_service.py import
\* from the database package.  The package binds it with `db = mongodb.db`
\* while it is being imported, when mongodb.db is still None; connect_to_mongo
\* later assigns mongodb.db only, so the imported name stays None (<<>>).
db_alias == <<>>

\* `db.<collection>` on None raises AttributeError; the routes' `except
\* Exception` turns it into a 500 whose detail is the exception text.
AttributeError(collection) ==
  [status |-> 500, detail |-> <<"'NoneType' object has no attribute", collection>>]

StatusConDb == IF db_alias = <<>> THEN 500 ELSE 200

\* The fields get_smtp_config returns of the stored smtp section.
smtp_sin_password(smtp) ==
  [configured |-> TRUE, server |-> smtp.server, port |-> smtp.port,
   username |-> smtp.username, use_tls |-> smtp.use_tls,
   from_name |-> smtp.from_name, from_email |-> smtp.from_email]

get_smtp_config_documento(config) ==
  IF config = <<>> THEN [configured |-> FALSE] ELSE config[1]

get_smtp_config_respuesta(config) ==
  IF db_alias = <<>> THEN AttributeError("communication_config")
  ELSE IF config = <<>> \/ config[1].smtp = <<>>
  THEN [configured |-> FALSE]
  ELSE smtp_sin_password(config[1].smtp[1])

get_smtp_config ==
  /\ last' = Respuesta("get_smtp_config", 0, StatusConDb)
  /\ salida' = [op |-> "get_smtp_config",
                r |-> get_smtp_config_respuesta(communication_config)]
  /\ UNCHANGED communication_config
  /\ UnchangedButConfig

update_smtp_config(smtp_config) ==
  /\ communication_config' =
       IF db_alias = <<>> THEN communication_config
       ELSE IF communication_config # <<>>
       THEN <<Set(communication_config[1],
                  [smtp |-> <<smtp_config>>, updated_at |-> utcnow])>>
       ELSE <<[smtp |-> <<smtp_config>>, twilio |-> <<>>,
               updated_at |-> utcnow, updated_by |-> "admin"]>>
  /\ last' = Respuesta("update_smtp_config", 0, StatusConDb)
  /\ salida' = [op |-> "update_smtp_config",
                r |-> IF db_alias = <<>>
                      THEN AttributeError("communication_config")
                      ELSE [success |-> TRUE]]
  /\ UnchangedButConfig

get_sms_config_respuesta(config) ==
  IF db_alias = <<>> THEN AttributeError("communication_config")
  ELSE IF config = <<>> \/ config[1].twilio = <<>>
  THEN [configured |-> FALSE]
  ELSE [configured |-> TRUE,
        account_sid |-> config[1].twilio[1].account_sid,
        from_number |-> config[1].twilio[1].from_number]

get_sms_config ==
  /\ last' = Respuesta("get_sms_config", 0, StatusConDb)
  /\ salida' = [op |-> "get_sms_config",
                r |-> get_sms_config_respuesta(communication_config)]
  /\ UNCHANGED communication_config
  /\ UnchangedButConfig

update_sms_config(twilio_config) ==
  /\ communication_config' =
       IF db_alias = <<>> THEN communication_config
       ELSE IF communication_config # <<>>
       THEN <<Set(communication_config[1],
                  [twilio |-> <<twilio_config>>, updated_at |-> utcnow])>>
       ELSE <<[smtp |-> <<>>, twilio |-> <<twilio_config>>,
               updated_at |-> utcnow, updated_by |-> "admin"]>>
  /\ last' = Respuesta("update_sms_config", 0, StatusConDb)
  /\ salida' = [op |-> "update_sms_config",
                r |-> IF db_alias = <<>>
                      THEN AttributeError("communication_config")
                      ELSE [success |-> TRUE]]
  /\ UnchangedButConfig

Passwords == {"", "hunter2", "s3creta"}
AuthTokens == {"", "token-1", "token-2"}

SMTPConfigs ==
  { [server |-> sv, port |-> 587, username |-> "clinica@example.com",
     password |-> pw, use_tls |-> tls, from_name |-> "Rubio García",
     from_email |-> "clinica@example.com"] :
    sv \in {"smtp.gmail.com", "smtp.example.com"}, pw \in Passwords,
    tls \in BOOLEAN }

TwilioConfigs ==
  { [account_sid |-> sid, auth_token |-> tk, from_number |-> "+34600000000"] :
    sid \in {"AC1", "AC2"}, tk \in AuthTokens }

\* db.communication_config as the database holds it when the process
\* starts: empty, or the one document the update routes write.
ConfigsAlmacenadas ==
  {<<>>} \cup
  { <<[smtp |-> smtp, twilio |-> twilio, updated_at |-> Instantes[1],
       updated_by |-> "admin"]>> :
    smtp \in {<<>>} \cup { <<c>> : c \in SMTPConfigs },
    twilio \in {<<>>} \cup { <<c>> : c \in TwilioConfigs } }

InitConfig ==
  /\ facturas = <<>>
  /\ enCurso = <<>>
  /\ reloj = 1
  /\ last = SinRespuesta
  /\ patients = <<>>
  /\ nextPatient = 1
  /\ appointments = <<>>
  /\ nextAppointment = 1
  /\ message_templates = <<>>
  /\ nextTemplate = 1
  /\ communication_config \in ConfigsAlmacenadas
  /\ communication_campaigns = <<>>
  /\ background_tasks = <<>>
  /\ communication_templates = <<>>
  /\ patient_communication_preferences = <<>>
  /\ db_citas = <<>>
  /\ db_pacientes = <<>>
  /\ enviados = <<>>
  /\ entrada = SinAplicar
  /\ salida = SinAplicar

NextConfig ==
  \/ get_smtp_config
  \/ \E smtp_config \in SMTPConfigs : update_smtp_config(smtp_config)
  \/ get_sms_config
  \/ \E twilio_config \in TwilioConfigs : update_sms_config(twilio_config)

SpecConfig == InitConfig /\ [][NextConfig]_vars

\* The store with its SMTP password and its Twilio auth_token replaced.
ConSecretos(config, password, auth_token) ==
  IF config = <<>> THEN config
  ELSE <<Set(config[1],
      [smtp |-> IF config[1].smtp = <<>> THEN <<>>
                ELSE <<Set(config[1].smtp[1], [password |-> password])>>,
       twilio |-> IF config[1].twilio = <<>> THEN <<>>
                  ELSE <<Set(config[1].twilio[1], [auth_token |-> auth_token])>>])>>

CamposFiscales == {"numero", "lineas", "subtotal", "total_iva", "total_factura"}

\* C16: once an invoice has reached estado emitida or pagada, its numero,
\* lineas, subtotal, total_iva and total_factura never change again under
\* any later actualizar_factura, anular_factura, enviar_factura_hacienda or
\* procesar_pago_factura.  An invoice has reached emitida when it is emitida
\* or pagada now, or carries the fecha_envio_hacienda that only
\* enviar_factura_hacienda writes, together with emitida.
C16_EmitidaInmutable ==
  [][ \A id \in 1..Len(facturas) :
        (\/ facturas[id].estado \in {"emitida", "pagada"}
         \/ facturas[id].fecha_envio_hacienda # <<>>)
        => \A campo \in CamposFiscales :
             facturas'[id][campo] = facturas[id][campo] ]_vars

\* C17: every change of an invoice's estado is borrador -> emitida,
\* emitida -> pagada, or any estado -> anulada.
C17_TransicionesDeEstado ==
  [][ \A id \in 1..Len(facturas) :
        facturas'[id].estado # facturas[id].estado
        => \/ facturas'[id].estado = "anulada"
           \/ /\ facturas[id].estado = "borrador"
              /\ facturas'[id].estado = "emitida"
           \/ /\ facturas[id].estado = "emitida"
              /\ facturas'[id].estado = "pagada" ]_vars

\* C18: whenever actualizar_factura answers an error (400, 404 or 500), the
\* stored invoices are exactly as before the call.
C18_ErrorSinEfecto ==
  [][ (/\ last'.op = "actualizar_factura"
       /\ last'.status \in {400, 404, 500})
      => facturas' = facturas ]_vars

(***************************************************************************)
(* The number crear_factura generates and the counter it reads back.       *)
(***************************************************************************)
\* Lines 48-59 of crear_factura for a serie whose last invoice is numero.
siguiente_numero(serie, anio_actual, numero) ==
  generar_numero_factura(serie, anio_actual, extraer_ultimo_numero(numero))

aplicar_numero_y_vuelta ==
  /\ entrada.op = "generar_numero_factura"
  /\ salida.op = "none"
  /\ LET numero == generar_numero_factura(entrada.serie, entrada.anio,
                                          entrada.n - 1)
     IN salida' = [op |-> entrada.op,
                   numero |-> numero,
                   ultimo_numero |-> extraer_ultimo_numero(numero),
                   siguiente |-> siguiente_numero(entrada.serie, entrada.anio,
                                                  numero)]
  /\ UNCHANGED <<facturas, enCurso, reloj, last, patients, nextPatient, appointments, nextAppointment, message_templates, nextTemplate, communication_config, communication_campaigns, background_tasks, communication_templates, patient_communication_preferences, db_citas, db_pacientes, enviados, entrada>>

\* Series: one letter, two letters, and with a dash.
Series == {<<"A">>, <<"B">>, <<"A", "B">>, <<"B", "A">>, <<"A", "-">>, <<"-", "B">>}

InitNumero ==
  /\ facturas = <<>>
  /\ enCurso = <<>>
  /\ reloj \in 1..Len(Instantes)
  /\ last = SinRespuesta
  /\ patients = <<>>
  /\ nextPatient = 1
  /\ appointments = <<>>
  /\ nextAppointment = 1
  /\ message_templates = <<>>
  /\ nextTemplate = 1
  /\ communication_config = <<>>
  /\ communication_campaigns = <<>>
  /\ background_tasks = <<>>
  /\ communication_templates = <<>>
  /\ patient_communication_preferences = <<>>
  /\ db_citas = <<>>
  /\ db_pacientes = <<>>
  /\ enviados = <<>>
  /\ entrada \in { [op |-> "generar_numero_factura", serie |-> serie,
                    anio |-> Instantes[reloj].anio, n |-> n] :
                   serie \in Series, n \in 1..MaxContador }
  /\ salida = SinAplicar

NextNumero == aplicar_numero_y_vuelta

SpecNumero == InitNumero /\ [][NextNumero]_vars

\* C19: the counter crear_factura reads back from the number of counter n
\* of a serie is n, and the next number it generates for the serie is that
\* of counter n + 1, for every serie.
C19_NumeroIdaYVuelta ==
  (salida.op = "generar_numero_factura")
  => /\ salida.ultimo_numero = entrada.n
     /\ salida.siguiente =
          <<"F">> \o IntToStr(entrada.anio) \o <<"-">> \o entrada.serie
          \o Format04d(entrada.n + 1)

(***************************************************************************)
(* DashboardService.calcular_metricas_mensuales and the figures of         *)
(* obtener_dashboard_financiero that are sums and counts of invoices.      *)
(***************************************************************************)
calcular_metricas_mensuales(lista_facturas, mes, anio, medio) ==
  LET del_mes(f) == f.fecha_emision.mes = mes /\ f.fecha_emision.anio = anio
      facturas_mes == SelectSeq(lista_facturas, del_mes)
      facturada(f) == f.estado \in {"emitida", "pagada"}
      pagada(f) == f.estado = "pagada"
      facturas_pagadas == SelectSeq(facturas_mes, pagada)
  IN [mes |-> mes,
      anio |-> anio,
      ingresos_total |->
        Round2(SumaTotalFactura(SelectSeq(facturas_mes, facturada)), 1, medio),
      ingresos_cobrados |-> Round2(SumaTotalFactura(facturas_pagadas), 1, medio),
      num_facturas |-> Len(facturas_mes),
      num_facturas_pagadas |-> Len(facturas_pagadas)]

\* The DashboardFinanciero of the stored invoices at the instant ahora; the
\* lists for the charts and the mean value are left out.
dashboard_financiero(lista_facturas, ahora, medio) ==
  LET mes_actual == ahora.mes
      anio_actual == ahora.anio
      mes_anterior == IF mes_actual = 1 THEN 12 ELSE mes_actual - 1
      anio_anterior == IF mes_actual = 1 THEN anio_actual - 1 ELSE anio_actual
      metricas_mes_actual ==
        calcular_metricas_mensuales(lista_facturas, mes_actual, anio_actual, medio)
      metricas_mes_anterior ==
        calcular_metricas_mensuales(lista_facturas, mes_anterior, anio_anterior, medio)
      del_anio(f) == /\ f.fecha_emision.anio = anio_actual
                     /\ f.estado \in {"emitida", "pagada"}
      emitida(f) == f.estado = "emitida"
      pagada(f) == f.estado = "pagada"
      anulada(f) == f.estado = "anulada"
      cobrada_mes(f) == f.estado = "pagada" /\ f.fecha_emision.mes = mes_actual
  IN [ingresos_mes_actual |-> Round2(metricas_mes_actual.ingresos_total, 1, medio),
      ingresos_mes_anterior |-> Round2(metricas_mes_anterior.ingresos_total, 1, medio),
      ingresos_anio_actual |->
        Round2(SumaTotalFactura(SelectSeq(lista_facturas, del_anio)), 1, medio),
      total_facturas |-> Len(lista_facturas),
      facturas_pendientes |-> Len(SelectSeq(lista_facturas, emitida)),
      facturas_pagadas |-> Len(SelectSeq(lista_facturas, pagada)),
      facturas_anuladas |-> Len(SelectSeq(lista_facturas, anulada)),
      importe_pendiente |->
        Round2(SumaTotalFactura(SelectSeq(lista_facturas, emitida)), 1, medio),
      importe_cobrado_mes |->
        Round2(SumaTotalFactura(SelectSeq(lista_facturas, cobrada_mes)), 1, medio)]

\* A stored document that Factura(**f) rejects makes the route answer 500.
obtener_dashboard_financiero ==
  /\ \E r \in { IF \A id \in 1..Len(facturas) : FacturaValida(facturas[id])
                THEN [status |-> 200,
                      body |-> dashboard_financiero(facturas, utcnow, medio)]
                ELSE [status |-> 500] : medio \in {0, 1} } :
       /\ last' = Respuesta("obtener_dashboard_financiero", 0, r.status)
       /\ salida' = [op |-> "obtener_dashboard_financiero", r |-> r]
  /\ UNCHANGED <<facturas, enCurso, reloj, patients, nextPatient, appointments, nextAppointment, message_templates, nextTemplate, communication_config, communication_campaigns, background_tasks, communication_templates, patient_communication_preferences, db_citas, db_pacientes, enviados, entrada>>

\* Months of issue: the current ones of Instantes and the same months a year
\* earlier.
FechasEmision ==
  { [anio |-> a, mes |-> m, hora |-> 10] : a \in {2024, 2025}, m \in {12} }
  \cup { [anio |-> a, mes |-> m, hora |-> 10] : a \in {2025, 2026}, m \in {1} }

FacturasEmitidasEn ==
  { Set(FacturaDeCita(1, PacientesRegistrados[1], estado),
        [fecha_emision |-> f]) : estado \in Estados, f \in FechasEmision }

InitDashboard ==
  /\ enCurso = <<>>
  /\ reloj \in 1..Len(Instantes)
  /\ last = SinRespuesta
  /\ patients = PacientesRegistrados
  /\ nextPatient = 4
  /\ appointments = CitasRegistradas
  /\ nextAppointment = 4
  /\ message_templates = <<>>
  /\ nextTemplate = 1
  /\ communication_config = <<>>
  /\ communication_campaigns = <<>>
  /\ background_tasks = <<>>
  /\ communication_templates = <<>>
  /\ patient_communication_preferences = <<>>
  /\ db_citas = <<>>
  /\ db_pacientes = <<>>
  /\ enviados = <<>>
  /\ facturas \in ListasHasta(FacturasEmitidasEn, MaxFacturas)
  /\ entrada = SinAplicar
  /\ salida = SinAplicar

NextDashboard == obtener_dashboard_financiero

SpecDashboard == InitDashboard /\ [][NextDashboard]_vars

\* The sum of total_factura over the invoices of the ids.
RECURSIVE SumaDeIds(_)
SumaDeIds(ids) ==
  IF ids = {} THEN 0
  ELSE LET id == CHOOSE x \in ids : TRUE
       IN facturas[id].total_factura + SumaDeIds(ids \ {id})

\* C20: in obtener_dashboard_financiero, importe_cobrado_mes is the sum of
\* total_factura over the pagada invoices whose fecha_emision lies in the
\* current month of the current year, which is ingresos_cobrados of
\* calcular_metricas_mensuales for the current month and year.
C20_CobradoDelMes ==
  (salida.op = "obtener_dashboard_financiero" /\ salida.r.status = 200)
  => /\ salida.r.body.importe_cobrado_mes =
          SumaDeIds({ id \in 1..Len(facturas) :
                        /\ facturas[id].estado = "pagada"
                        /\ facturas[id].fecha_emision.mes = utcnow.mes
                        /\ facturas[id].fecha_emision.anio = utcnow.anio })
     /\ \E medio \in {0, 1} :
          salida.r.body.importe_cobrado_mes =
            calcular_metricas_mensuales(facturas, utcnow.mes, utcnow.anio,
                                        medio).ingresos_cobrados
(***************************************************************************)
(* The campaign routes of communication.py.                                *)
(***************************************************************************)
MaxCampanas == 2

EstadosCampana == {"draft", "scheduled", "sending", "completed", "cancelled"}

UnchangedButCampaigns ==
  UNCHANGED <<facturas, enCurso, reloj, patients, nextPatient, appointments, nextAppointment, message_templates, nextTemplate, communication_config, communication_templates, patient_communication_preferences, db_citas, db_pacientes, enviados, entrada, salida>>

\* The status of the answer of send_campaign; 200 is its success body.
send_campaign_status(campaign_id) ==
  IF ~ObjectIdIsValid(campaign_id) THEN 400
  ELSE IF db_alias = <<>> THEN 500
  ELSE IF campaign_id \notin DOMAIN communication_campaigns THEN 404
  ELSE IF communication_campaigns[campaign_id].status # "draft" THEN 400
  ELSE 200

send_campaign(campaign_id) ==
  LET status == send_campaign_status(campaign_id)
  IN /\ last' = Respuesta("send_campaign", campaign_id, status)
     /\ IF status = 200
        THEN /\ communication_campaigns' =
                  [communication_campaigns EXCEPT ![campaign_id] =
                     Set(@, [status |-> "scheduled", scheduled_at |-> <<utcnow>>])]
             /\ background_tasks' = Append(background_tasks, campaign_id)
        ELSE UNCHANGED <<communication_campaigns, background_tasks>>
     /\ UnchangedButCampaigns

cancel_campaign_status(campaign_id) ==
  IF ~ObjectIdIsValid(campaign_id) THEN 400
  ELSE IF db_alias = <<>> THEN 500
  ELSE IF campaign_id \notin DOMAIN communication_campaigns THEN 404
  ELSE IF communication_campaigns[campaign_id].status \notin {"scheduled", "sending"}
  THEN 400
  ELSE 200

cancel_campaign(campaign_id) ==
  LET status == cancel_campaign_status(campaign_id)
  IN /\ last' = Respuesta("cancel_campaign", campaign_id, status)
     /\ communication_campaigns' =
          IF status = 200
          THEN [communication_campaigns EXCEPT ![campaign_id] =
                  Set(@, [status |-> "cancelled"])]
          ELSE communication_campaigns
     /\ UNCHANGED background_tasks
     /\ UnchangedButCampaigns

delete_campaign_status(campaign_id) ==
  IF ~ObjectIdIsValid(campaign_id) THEN 400
  ELSE IF db_alias = <<>> THEN 500
  ELSE IF campaign_id \notin DOMAIN communication_campaigns THEN 404
  ELSE IF communication_campaigns[campaign_id].status \in {"sending", "completed"}
  THEN 400
  ELSE 200

delete_campaign(campaign_id) ==
  LET status == delete_campaign_status(campaign_id)
  IN /\ last' = Respuesta("delete_campaign", campaign_id, status)
     /\ communication_campaigns' =
          IF status = 200
          THEN [id \in DOMAIN communication_campaigns \ {campaign_id} |->
                  communication_campaigns[id]]
          ELSE communication_campaigns
     /\ UNCHANGED background_tasks
     /\ UnchangedButCampaigns

\* A stored campaign document, with the fields the three routes read or set.
Campana(status) ==
  [name |-> "Revisión anual", type |-> "reminder", status |-> status,
   scheduled_at |-> <<>>, created_by |-> "admin"]

\* db.communication_campaigns as the database holds it when the process
\* starts: campaigns under some of the ids, each in one of the five states.
CampanasAlmacenadas ==
  UNION { [ids -> {Campana(st) : st \in EstadosCampana}] :
          ids \in SUBSET (1..MaxCampanas) }

IdsCampana == 0..(MaxCampanas + 1)

InitCampaigns ==
  /\ facturas = <<>>
  /\ enCurso = <<>>
  /\ reloj = 1
  /\ last = SinRespuesta
  /\ patients = <<>>
  /\ nextPatient = 1
  /\ appointments = <<>>
  /\ nextAppointment = 1
  /\ message_templates = <<>>
  /\ nextTemplate = 1
  /\ communication_config = <<>>
  /\ communication_campaigns \in CampanasAlmacenadas
  /\ background_tasks = <<>>
  /\ communication_templates = <<>>
  /\ patient_communication_preferences = <<>>
  /\ db_citas = <<>>
  /\ db_pacientes = <<>>
  /\ enviados = <<>>
  /\ entrada = SinAplicar
  /\ salida = SinAplicar

NextCampaigns ==
  \/ \E id \in IdsCampana : send_campaign(id)
  \/ \E id \in IdsCampana : cancel_campaign(id)
  \/ \E id \in IdsCampana : delete_campaign(id)

SpecCampaigns == InitCampaigns /\ [][NextCampaigns]_vars

\* C21: for a stored campaign, send_campaign answers success exactly when
\* its status is draft, and then the campaign is scheduled and its
\* processing is queued; for any other status it answers 400 and changes
\* nothing; cancel_campaign answers success exactly from scheduled or
\* sending; delete_campaign answers 400 for sending or completed.
C21_EstadosDeCampana ==
  [][\A id \in DOMAIN communication_campaigns :
       LET status == communication_campaigns[id].status
       IN /\ Paso("send_campaign", id) =>
               IF status = "draft"
               THEN /\ last'.status = 200
                    /\ communication_campaigns'[id].status = "scheduled"
                    /\ background_tasks' = Append(background_tasks, id)
               ELSE /\ last'.status = 400
                    /\ UNCHANGED <<communication_campaigns, background_tasks>>
          /\ Paso("cancel_campaign", id) =>
               (last'.status = 200 <=> status \in {"scheduled", "sending"})
          /\ (Paso("delete_campaign", id) /\ status \in {"sending", "completed"})
               => last'.status = 400]_vars

(***************************************************************************)
(* AutomationService.send_24h_reminders, with the routes that create the   *)
(* patients and the appointments.                                          *)
(***************************************************************************)
\* The day of the month of a datetime; the instants of the clock are on day 1.
Dia(f) == IF "dia" \in DOMAIN f THEN f.dia ELSE 1

\* The day after `ahora`, at the same time of day.
Manana(ahora) ==
  [anio |-> ahora.anio, mes |-> ahora.mes, dia |-> Dia(ahora) + 1,
   hora |-> ahora.hora]

\* tomorrow_start <= f < tomorrow_end, for the midnight after `ahora`.
EsManana(f, ahora) ==
  f.anio = ahora.anio /\ f.mes = ahora.mes /\ Dia(f) = Dia(ahora) + 1

get_template(category, channel_type) ==
  LET activos == { i \in DOMAIN communication_templates :
                     /\ communication_templates[i].category = category
                     /\ communication_templates[i].type = channel_type
                     /\ communication_templates[i].is_active }
  IN IF activos = {} THEN <<>>
     ELSE <<communication_templates[CHOOSE i \in activos :
                                      \A j \in activos : i <= j]>>

get_patient_preferences(patient_id) ==
  LET suyas == { i \in DOMAIN patient_communication_preferences :
                   patient_communication_preferences[i].patient_id = patient_id }
  IN IF suyas = {}
     THEN [preferred_channels |->
             [email |-> TRUE, sms |-> TRUE, whatsapp |-> TRUE],
           communication_types |->
             [appointment_reminders |-> TRUE, treatment_reminders |-> TRUE,
              promotional_offers |-> FALSE]]
     ELSE patient_communication_preferences[CHOOSE i \in suyas :
                                              \A j \in suyas : i <= j]

\* The messages send_based_on_preferences hands to a channel: one or none.
send_based_on_preferences(patient, template, preferences) ==
  IF /\ preferences.preferred_channels.email
     /\ patient.email # <<>>
     /\ template.type = "email"
  THEN <<[canal |-> "email", to |-> patient.email[1],
          subject |-> template.subject]>>
  ELSE IF /\ preferences.preferred_channels.sms
          /\ patient.telefono # <<>>
          /\ template.type = "sms"
  THEN <<[canal |-> "sms", to |-> patient.telefono[1],
          subject |-> template.subject]>>
  ELSE IF preferences.preferred_channels.whatsapp /\ patient.telefono # <<>>
  THEN <<[canal |-> "whatsapp", to |-> patient.telefono[1],
          subject |-> template.subject]>>
  ELSE <<>>

\* The loop of send_24h_reminders over the appointments found.
RECURSIVE recordatorios_24h(_)
recordatorios_24h(lista_citas) ==
  IF lista_citas = <<>> THEN <<>>
  ELSE LET appointment == Head(lista_citas)
           patient == IF appointment.paciente_id \in DOMAIN db_pacientes
                      THEN <<db_pacientes[appointment.paciente_id]>>
                      ELSE <<>>
           preferences == get_patient_preferences(IdStr(appointment.paciente_id))
           template == get_template("reminder_24h", "email")
       IN (IF \/ patient = <<>>
              \/ ~preferences.communication_types.appointment_reminders
              \/ template = <<>>
           THEN <<>>
           ELSE send_based_on_preferences(patient[1], template[1], preferences))
          \o recordatorios_24h(Tail(lista_citas))

\* db.citas.find(...) of send_24h_reminders.
citas_de_manana(ahora) ==
  LET DeManana(cita) ==
        /\ cita.fecha # <<>>
        /\ EsManana(cita.fecha[1], ahora)
        /\ cita.estado \in {"programada", "confirmada"}
  IN SelectSeq(db_citas, DeManana)

\* One run of the job.  `db` being None, db.citas raises AttributeError, which
\* the job's `except Exception` logs: the run ends without a message.
send_24h_reminders ==
  /\ enviados' = IF db_alias = <<>> THEN enviados
                 ELSE enviados \o recordatorios_24h(citas_de_manana(utcnow))
  /\ last' = Respuesta("send_24h_reminders", 0, 0)
  /\ UNCHANGED <<facturas, enCurso, reloj, patients, nextPatient, appointments, nextAppointment, message_templates, nextTemplate, communication_config, communication_campaigns, background_tasks, communication_templates, patient_communication_preferences, db_citas, db_pacientes, entrada, salida>>

\* The active reminder_24h email template.
PlantillaReminder24h ==
  [name |-> "Recordatorio 24 horas", type |-> "email",
   category |-> "reminder_24h", subject |-> "Recordatorio de su cita",
   html_content |-> "<p>Su cita es mañana</p>", is_active |-> TRUE]

\* AppointmentCreate payloads for the stored patients, dated today or tomorrow.
AppointmentsReminder ==
  { [AppointmentCreate(p) EXCEPT !.date = <<f>>] :
    p \in 1..MaxPatients, f \in {Instantes[1], Manana(Instantes[1])} }

InitReminders ==
  /\ facturas = <<>>
  /\ enCurso = <<>>
  /\ reloj = 1
  /\ last = SinRespuesta
  /\ patients = <<>>
  /\ nextPatient = 1
  /\ appointments = <<>>
  /\ nextAppointment = 1
  /\ message_templates = <<>>
  /\ nextTemplate = 1
  /\ communication_config = <<>>
  /\ communication_campaigns = <<>>
  /\ background_tasks = <<>>
  /\ communication_templates \in {<<>>, <<PlantillaReminder24h>>}
  /\ patient_communication_preferences = <<>>
  /\ db_citas = <<>>
  /\ db_pacientes = <<>>
  /\ enviados = <<>>
  /\ entrada = SinAplicar
  /\ salida = SinAplicar

NextReminders ==
  \/ \E p \in PatientsCreate : create_patient(p)
  \/ nextAppointment <= MaxCitas
       /\ \E a \in AppointmentsReminder : create_appointment(a)
  \/ send_24h_reminders

SpecReminders == InitReminders /\ [][NextReminders]_vars

\* C22: a run of send_24h_reminders hands a reminder for every stored
\* appointment created through create_appointment with status scheduled and
\* a date of tomorrow, to its patient, when the patient exists, has an
\* address, accepts appointment reminders, and an active reminder_24h email
\* template exists.
C22_RecordatorioDeManana ==
  [][Paso("send_24h_reminders", 0) =>
       \A id \in DOMAIN appointments :
         LET cita == appointments[id]
             n == cita.patient_id[1]
         IN (/\ cita.status = <<"scheduled">>
             /\ EsManana(cita.date[1], utcnow)
             /\ n \in DOMAIN patients
             /\ patients[n].email # <<>>
             /\ get_patient_preferences(IdStr(n)).communication_types.appointment_reminders
             /\ get_template("reminder_24h", "email") # <<>>)
            => \E k \in DOMAIN enviados' :
                 enviados'[k].to = patients[n].email[1]]_vars

====
